---- MODULE Spec2Model ----
(***************************************************************************)
(* Model of wisp (github.com/mktcz/wisp): the per-application Lifecycle    *)
(* Manager (internal/process), the debounced directory Watcher             *)
(* (internal/watcher) and the tasks of the Runner that drive them          *)
(* (internal/runner).                                                      *)
(*                                                                         *)
(* Spec     one application: the routing task's Restarts, spontaneous      *)
(*          process exits, reaper goroutines and Shutdown's Stop.          *)
(* SpecLong Spec with one Restart more.                                    *)
(* SpecAPI  the Manager with, in place of Shutdown, a client that calls    *)
(*          the exported Start and Stop directly.                          *)
(* SpecFair Spec with the fairness the Go scheduler and the kernel give.   *)
(* SpecW    one Watcher: raw events, debounce timers and their callbacks   *)
(*          over a discrete clock.                                         *)
(* SpecF    SpecW fed one raw event of any kind, with exclude globs.       *)
(* SpecD    one Watcher over a directory tree: Watch's walk, the watch     *)
(*          list, directories made and files written while watching.       *)
(* SpecS    the Runner for one application: startApp, the Watcher, the     *)
(*          routing task and the Shutdown that Run calls.                  *)
(* SpecX    SpecS with a second caller of Shutdown.                        *)
(* SpecSFair, SpecSLong  SpecS under fairness; with one Restart more.      *)
(* SpecA    two applications side by side and the calls their Managers     *)
(*          receive.                                                       *)
(* SpecH    one Restart with more than one command in each hook list.      *)
(* SpecC    builds and calls of CleanUp over every clean-up configuration  *)
(*          and every state of the disk.                                   *)
(* SpecE    one Watcher and its routing task with errors from fsnotify.    *)
(* SpecR    Run over two applications: selection, the startApp tasks, the  *)
(*          select on interrupt and done, and the callers of Shutdown.     *)
(* SpecRFair  SpecR with every goroutine of Run going on when it can.      *)
(* SpecL    the Manager mutex and the Runner's read-write mutex under      *)
(*          Restart, Stop, reapers, GetRunningApps, startApp, Shutdown.    *)
(* SpecK    Watch called on roots of several base names, then file writes. *)
(***************************************************************************)
EXTENDS Integers, Sequences, FiniteSets, TLC

\* ---------------------------------------------------------------- bounds
MaxRestarts == 2   \* calls of Restart in one run of Spec (the first included)
MaxHooks == 1      \* length of the pre_cmd / post_cmd lists (one more in SpecH)
MaxEvents == 3     \* qualifying raw events one run of SpecW delivers
MaxTime == 6       \* last tick of the clock of SpecW
DebounceTicks == 2 \* the debounce window (300ms at runner.go:131), in ticks
MaxCleanUps == 3   \* calls of the exported CleanUp in one run of SpecC
MaxNames == 2      \* names one call of Run is given in SpecR

\* ------------------------------------------------------ program constants
ErrorsCap == 10    \* capacity of Watcher.Errors

\* ------------------------------------------------------- values of m.cmd
Nil == 0           \* m.cmd == nil
NoProc == -1       \* m.cmd is a Cmd that never started (m.cmd.Process == nil)
Gens == 1..(MaxRestarts + 1)  \* m.cmd is the Cmd of the g-th spawned child

Free == "free"
Callers == {"router", "shutdown", "client"}

VARIABLES
  app,        \* config.App: the fields Restart, Start and Stop read
  running,    \* Manager.running
  cmd,        \* Manager.cmd
  mu,         \* Manager.mu: Free or the task holding it
  procs,      \* child processes: "unborn", "alive", "dead"
  sent,       \* signals each caller's current (or last) Stop has sent, in order
  reaper,     \* the goroutine of Start, one per spawned child
  rtarget,    \* the Cmd that goroutine read from m.cmd
  panicked,   \* a goroutine dereferenced nil: the program is gone
  pc,         \* position of the routing task inside Restart
  hk,         \* hooks of the current list already run
  trace,      \* steps the current (or last) Restart has taken
  result,     \* what the last Restart returned: "none", "ok", "err"
  left,       \* calls of Restart (and of a client) the run may still make
  started,    \* startApp: "no", then "ok" or "failed" by its first Restart
  stopPc,     \* position of each caller inside Stop
  waiter,     \* the goroutine of Stop that waits on the process
  startRet,   \* what the last Start returned
  client,     \* a caller of the exported Start and Stop: what it last called
  \* ---- one Watcher (watcher.go)
  now,        \* the clock, in ticks
  wpc,        \* position of run inside its handler of a raw event
  timers,     \* the timers time.AfterFunc has created, in order
  timer,      \* run's local timer: index into timers, 0 for nil
  timerActive,\* run's local timerActive
  Events,     \* signals buffered in the Events channel (capacity 1)
  evTime,     \* arrival times of the qualifying raw events so far
  feed,       \* the raw events fsnotify delivers in this run, in order
  fed,        \* how many of them run has received
  excludeDirs,  \* Watcher.excludeDirs
  excludeFiles, \* Watcher.excludeFiles: glob patterns
  excludeRegex, \* Watcher.excludeRegex
  \* ---- the Runner (runner.go)
  wst,        \* the Watcher's life: "new", "running" (run is live),
              \* "closing" (Stop was called), "exited" (run has returned)
  done,       \* Runner.done is closed
  rpc,        \* handleFileChanges: "none", "select", "restart", "exited"
  sd,         \* position of each caller of Shutdown inside it
  \* ---- the file system under a watch root, and fsnotify
  exist,      \* the directories that exist
  touched,    \* the path changed last (<<>>: none so far)
  watched,    \* the directories registered with the fsnotify watcher
  \* ---- several applications side by side
  fleet,      \* per application: its watcher's Events, its routing task and
              \* the calls its Manager has received
  \* ---- the Errors channels (watcher.go)
  Errors,     \* errors buffered in Watcher.Errors (capacity ErrorsCap)
  rawErr,     \* fsnotify has an error ready on its own Errors channel
  \* ---- build artifacts (process.go)
  cleanApp,   \* config.App: CleanOnExit; Bin is "" or lies inside ("in") or
              \* outside ("out") TmpDir; TmpDir is "", ".", "/" or a directory
  tmpFiles,   \* Manager.tmpFiles: its length (every entry is app.Bin)
  disk,       \* which of the binary "bin" and the directory "tmp" exist;
              \* "ro": the binary cannot be unlinked (os.Remove: EACCES)
  cleanLog,   \* per call of CleanUp so far, the removals it reported as failed
  \* ---- Run over the selected applications (runner.go)
  run,        \* Run's inputs, its position, the startApp tasks, its result
  \* ---- Runner.mu and the tasks that take it (runner.go)
  rmu         \* per task, its position around r.mu (and, inside, m.mu)

mvars == <<app, running, cmd, mu, procs, sent, reaper, rtarget, panicked,
           pc, hk, trace, result, left, started, stopPc, waiter, startRet,
           client>>

rvars == <<wst, done, rpc, sd>>

evars == <<Errors, rawErr>>

avars == <<cleanApp, tmpFiles, disk, cleanLog>>

xvars == <<exist, touched, watched, fleet, evars, avars, run, rmu>>

wcfg == <<excludeDirs, excludeFiles, excludeRegex>>

wvars == <<now, wpc, timers, timer, timerActive, Events, evTime, feed, fed, wcfg>>

\* The callers of Shutdown: Run itself and a caller from outside.
SdCallers == {"run", "ext"}

\* Shutdown has returned to caller c.
ShutdownOver(c) == sd[c] \in {"returned", "returned late"}

\* No error from fsnotify; clean_on_exit unset (the default, config.go:127-129)
\* with the binary and the temp directory of an earlier build in place.
\* The tasks that take Runner.mu, before their calls: a caller of
\* GetRunningApps, a startApp that registers, a Shutdown that takes its
\* snapshots.
LockTasks == {"gra", "reg", "snap"}

LIdle == [t \in LockTasks |-> "idle"]

AIdle ==
  /\ rmu = LIdle
  /\ Errors = 0
  /\ rawErr = FALSE
  /\ cleanApp = [CleanOnExit |-> FALSE, Bin |-> "in", TmpDir |-> "dir"]
  /\ tmpFiles = 0
  /\ disk = {"bin", "tmp"}
  /\ cleanLog = <<>>

\* The same, with Run not followed.
YIdle ==
  /\ AIdle
  /\ run = <<>>

\* One application over a file system that is not followed.
XIdle ==
  /\ exist = {}
  /\ touched = <<>>
  /\ watched = {}
  /\ fleet = <<>>
  /\ YIdle

\* A Runner as New returns it, before startApp has made the Watcher.
RIdle ==
  /\ wst = "new"
  /\ done = FALSE
  /\ rpc = "none"
  /\ sd = [c \in SdCallers |-> "idle"]
  /\ XIdle

\* A Watcher whose run is live, taken by itself.
RWatching ==
  /\ wst = "running"
  /\ done = FALSE
  /\ rpc = "none"
  /\ sd = [c \in SdCallers |-> "idle"]
  /\ XIdle

\* run before its first raw event.
WRun ==
  /\ now = 0
  /\ wpc = "select"
  /\ timers = <<>>
  /\ timer = 0
  /\ timerActive = FALSE
  /\ Events = 0
  /\ evTime = <<>>
  /\ fed = 0

\* A Watcher as New returns it: nothing excluded by configuration.
WIdle ==
  /\ WRun
  /\ feed = <<>>
  /\ excludeDirs = <<>>
  /\ excludeFiles = <<>>
  /\ excludeRegex = <<>>

\* ------------------------------------------------------------ config.App
Apps ==
  [ StopOnError   : BOOLEAN,
    Rerun         : BOOLEAN,
    HasBuild      : BOOLEAN,          \* BuildCmd != "" || Cmd != ""
    Run           : {"none", "blank", "cmd"},
                                      \* neither Bin nor RunCmd; RunCmd of
                                      \* white space only; a command line
    SendInterrupt : BOOLEAN,
    NPre          : 0..MaxHooks,      \* len(PreCmd)
    NPost         : 0..MaxHooks ]     \* len(PostCmd)

NewManager ==
  /\ running = FALSE
  /\ cmd = Nil
  /\ mu = Free

\* An application with a build command and a run command.
Plain == [StopOnError |-> FALSE, Rerun |-> FALSE, HasBuild |-> TRUE,
          Run |-> "cmd", SendInterrupt |-> FALSE, NPre |-> 0, NPost |-> 0]

MReset(n) ==
  /\ left = n
  /\ started = "no"
  /\ NewManager
  /\ procs = [g \in Gens |-> "unborn"]
  /\ sent = [t \in Callers |-> <<>>]
  /\ reaper = [g \in Gens |-> "none"]
  /\ rtarget = [g \in Gens |-> Nil]
  /\ panicked = FALSE
  /\ pc = "idle"
  /\ hk = 0
  /\ trace = <<>>
  /\ result = "none"
  /\ stopPc = [t \in Callers |-> "none"]
  /\ waiter = [t \in Callers |-> "none"]
  /\ startRet = "none"
  /\ client = "idle"

MInit(n) ==
  /\ app \in Apps
  /\ MReset(n)

Alive == {g \in Gens : procs[g] = "alive"}
Spawned == {g \in Gens : procs[g] # "unborn"}
NextGen == Cardinality(Spawned) + 1

Step(s, ok) == [s |-> s, ok |-> ok]

\* Start without the test of m.running at line 196.
StartNoCheck(o) ==
  /\ mu = Free
  /\ IF app.Run = "none"
       THEN /\ startRet' = "nil"
            /\ UNCHANGED <<running, cmd, procs, reaper>>
     ELSE IF app.Run = "blank"
       THEN /\ startRet' = "empty"
            /\ UNCHANGED <<running, cmd, procs, reaper>>
     ELSE IF o = "fail"
       THEN /\ cmd' = NoProc
            /\ startRet' = "fail"
            /\ UNCHANGED <<running, procs, reaper>>
     ELSE /\ NextGen \in Gens
          /\ cmd' = NextGen
          /\ running' = TRUE
          /\ procs' = [procs EXCEPT ![NextGen] = "alive"]
          /\ reaper' = [reaper EXCEPT ![NextGen] = "spawned"]
          /\ startRet' = "ok"
  /\ UNCHANGED <<mu, sent, rtarget>>

\* ------------------------------------------------- Manager.Start (process.go)
\* The critical section of Start.  o is what exec gives: "ok" or "fail"
\* (StdoutPipe, StderrPipe or cmd.Start failing).  A failure after line 219
\* leaves m.cmd pointing at the Cmd that never started.
Start(o) ==
  /\ mu = Free
  /\ IF running
       THEN /\ startRet' = "already"
            /\ UNCHANGED <<running, cmd, procs, reaper>>
     ELSE IF app.Run = "none"
       THEN /\ startRet' = "nil"
            /\ UNCHANGED <<running, cmd, procs, reaper>>
     ELSE IF app.Run = "blank"
       THEN /\ startRet' = "empty"
            /\ UNCHANGED <<running, cmd, procs, reaper>>
     ELSE IF o = "fail"
       THEN /\ cmd' = NoProc
            /\ startRet' = "fail"
            /\ UNCHANGED <<running, procs, reaper>>
     ELSE /\ NextGen \in Gens
          /\ cmd' = NextGen
          /\ running' = TRUE
          /\ procs' = [procs EXCEPT ![NextGen] = "alive"]
          /\ reaper' = [reaper EXCEPT ![NextGen] = "spawned"]
          /\ startRet' = "ok"
  /\ UNCHANGED <<mu, sent, rtarget>>

StartOk == startRet' \in {"ok", "nil"}

\* The goroutine of Start, lines 250-262.  It reads m.cmd without the lock,
\* after Start has returned: the value is whatever m.cmd holds by then.
ReaperRead(g) ==
  /\ ~panicked
  /\ reaper[g] = "spawned"
  /\ IF cmd = Nil
       THEN /\ panicked' = TRUE
            /\ UNCHANGED <<reaper, rtarget>>
       ELSE /\ rtarget' = [rtarget EXCEPT ![g] = cmd]
            /\ reaper' = [reaper EXCEPT ![g] = "waiting"]
            /\ UNCHANGED panicked
  /\ UNCHANGED <<app, running, cmd, mu, procs, sent, pc, hk, trace, result,
                 left, started, stopPc, waiter, startRet>>
  /\ UNCHANGED <<client, wvars, rvars, xvars>>

\* Lines 251-255: cmd.Wait() returns once the process is gone (at once, with
\* an error, for a Cmd that never started); then lock, running = false,
\* cmd = nil, unlock.
ReaperClear(g) ==
  /\ ~panicked
  /\ reaper[g] = "waiting"
  /\ IF rtarget[g] = NoProc THEN TRUE ELSE procs[rtarget[g]] = "dead"
  /\ mu = Free
  /\ running' = FALSE
  /\ cmd' = Nil
  /\ reaper' = [reaper EXCEPT ![g] = "done"]
  /\ UNCHANGED <<app, mu, procs, sent, rtarget, panicked, pc, hk, trace, result,
                 left, started, stopPc, waiter, startRet>>
  /\ UNCHANGED <<client, wvars, rvars, xvars>>

\* A child exits: on its own, or because of a signal it received.
ProcExit(g) ==
  /\ ~panicked
  /\ procs[g] = "alive"
  /\ procs' = [procs EXCEPT ![g] = "dead"]
  /\ UNCHANGED <<app, running, cmd, mu, sent, reaper, rtarget, panicked, pc, hk,
                 trace, result, left, started, stopPc, waiter, startRet>>
  /\ UNCHANGED <<client, wvars, rvars, xvars>>

\* Stages of Restart that the configuration leaves something to do in.
\* buildCmd falls back to Cmd (lines 73-76); HasBuild is the result.
AfterBuild == IF app.NPost > 0 THEN "post" ELSE "start"
AfterPre == IF app.HasBuild THEN "build" ELSE AfterBuild
AfterKillDelay == IF app.NPre > 0 THEN "pre" ELSE AfterPre

\* -------------------------------------------------- Manager.Stop (process.go)
TermSignal == IF app.SendInterrupt THEN "int" ELSE "term"

\* Stop returns nil to caller t; the routing task's Restart has done its
\* stop step.
StopReturn(t) ==
  /\ stopPc' = [stopPc EXCEPT ![t] = "ret"]
  /\ trace' = IF t = "router" THEN Append(trace, Step("stop", TRUE)) ELSE trace

\* How the Stop that just returned to t ended, read off the signals it sent.
StopHow(t) ==
  CASE sent[t] = <<>> -> "noop"
    [] Len(sent[t]) = 1 -> "graceful"
    [] OTHER -> "killed"

\* Stop that resets the fields on every path, the early return included.
StopEnterResets(t) ==
  /\ ~panicked
  /\ stopPc[t] = "call"
  /\ mu = Free
  /\ IF ~running \/ cmd = Nil \/ cmd = NoProc
       THEN /\ StopReturn(t)
            /\ running' = FALSE
            /\ cmd' = Nil
            /\ UNCHANGED <<mu, sent, waiter>>
       ELSE /\ mu' = t
            /\ sent' = [sent EXCEPT ![t] = <<TermSignal>>]
            /\ waiter' = [waiter EXCEPT ![t] = "waiting"]
            /\ stopPc' = [stopPc EXCEPT ![t] = "wait"]
            /\ UNCHANGED <<trace, running, cmd>>
  /\ UNCHANGED <<app, procs, reaper, rtarget, panicked, pc, hk,
                 result, left, started, startRet>>
  /\ UNCHANGED <<client, wvars, rvars, xvars>>

\* Lines 269-302: lock; nothing tracked: return nil; otherwise send the
\* termination signal to the group (or the process) and start the goroutine
\* that waits on the process.
StopEnter(t) ==
  /\ ~panicked
  /\ stopPc[t] = "call"
  /\ mu = Free
  /\ IF ~running \/ cmd = Nil \/ cmd = NoProc
       THEN /\ StopReturn(t)
            /\ UNCHANGED <<mu, sent, waiter>>
       ELSE /\ mu' = t
            /\ sent' = [sent EXCEPT ![t] = <<TermSignal>>]
            /\ waiter' = [waiter EXCEPT ![t] = "waiting"]
            /\ stopPc' = [stopPc EXCEPT ![t] = "wait"]
            /\ UNCHANGED trace
  /\ UNCHANGED <<app, running, cmd, procs, reaper, rtarget, panicked, pc, hk,
                 result, left, started, startRet>>
  /\ UNCHANGED <<client, wvars, rvars, xvars>>

\* Lines 299-302: Process.Wait returns when the process is gone; done <- err.
StopWaiter(t) ==
  /\ ~panicked
  /\ waiter[t] = "waiting"
  /\ procs[cmd] = "dead"
  /\ waiter' = [waiter EXCEPT ![t] = "sent"]
  /\ UNCHANGED <<app, running, cmd, mu, procs, sent, reaper, rtarget, panicked,
                 pc, hk, trace, result, left, started, stopPc, startRet>>
  /\ UNCHANGED <<client, wvars, rvars, xvars>>

\* Stop that forgets line 319.
StopClearKeepsCmd(t) ==
  /\ running' = FALSE
  /\ cmd' = cmd
  /\ mu' = Free
  /\ waiter' = [waiter EXCEPT ![t] = "none"]
  /\ StopReturn(t)

\* Lines 318-320 (and the deferred unlock).
StopClear(t) ==
  /\ running' = FALSE
  /\ cmd' = Nil
  /\ mu' = Free
  /\ waiter' = [waiter EXCEPT ![t] = "none"]
  /\ StopReturn(t)

\* Lines 304-306: done is received within the grace window.
StopGraceful(t) ==
  /\ ~panicked
  /\ stopPc[t] = "wait"
  /\ waiter[t] = "sent"
  /\ StopClear(t)
  /\ UNCHANGED <<app, procs, sent, reaper, rtarget, panicked, pc, hk, result,
                 left, started, startRet>>
  /\ UNCHANGED <<client, wvars, rvars, xvars>>

\* Lines 307-314: the 5 s timer fires before done is ready: SIGKILL.
StopTimeout(t) ==
  /\ ~panicked
  /\ stopPc[t] = "wait"
  /\ waiter[t] # "sent"
  /\ sent' = [sent EXCEPT ![t] = Append(@, "kill")]
  /\ stopPc' = [stopPc EXCEPT ![t] = "killed"]
  /\ UNCHANGED <<app, running, cmd, mu, procs, reaper, rtarget, panicked, pc, hk,
                 trace, result, left, started, waiter, startRet>>
  /\ UNCHANGED <<client, wvars, rvars, xvars>>

\* Stop that returns right after the kill, without line 315.
StopKilledNoWait(t) ==
  /\ ~panicked
  /\ stopPc[t] = "killed"
  /\ StopClear(t)
  /\ UNCHANGED <<app, procs, sent, reaper, rtarget, panicked, pc, hk, result,
                 left, started, startRet>>
  /\ UNCHANGED <<client, wvars, rvars, xvars>>

\* Line 315: <-done after the kill.
StopKilled(t) ==
  /\ ~panicked
  /\ stopPc[t] = "killed"
  /\ waiter[t] = "sent"
  /\ StopClear(t)
  /\ UNCHANGED <<app, procs, sent, reaper, rtarget, panicked, pc, hk, result,
                 left, started, startRet>>
  /\ UNCHANGED <<client, wvars, rvars, xvars>>

Stop(t) ==
  \/ StopEnter(t)
  \/ StopWaiter(t)
  \/ StopGraceful(t)
  \/ StopTimeout(t)
  \/ StopKilled(t)

\* ----------------------------------------------- Manager.Restart (process.go)
\* Restart returns r to its caller, which goes back to its select.
Return(r) ==
  /\ pc' = "idle"
  /\ result' = r
  /\ started' = IF started # "no" THEN started
                ELSE IF r = "ok" THEN "ok" ELSE "failed"

\* startApp line 127 (the first call) and handleFileChanges line 163:
\* Restart is entered and calls Stop.
RestartBeginM ==
  /\ ~panicked
  /\ pc = "idle"
  /\ left > 0
  /\ started # "failed"
  /\ pc' = "stop"
  /\ stopPc' = [stopPc EXCEPT !["router"] = "call"]
  /\ trace' = <<>>
  /\ hk' = 0
  /\ result' = "none"
  /\ left' = left - 1
  /\ UNCHANGED started
  /\ UNCHANGED <<app, running, cmd, mu, procs, sent, reaper, rtarget, panicked,
                 waiter, startRet>>
  /\ UNCHANGED client

RestartBegin ==
  /\ RestartBeginM
  /\ UNCHANGED <<wvars, rvars, xvars>>

\* Lines 48-59: Stop has returned; the KillDelay sleep, when one is configured.
KillDelay ==
  /\ ~panicked
  /\ pc = "stop"
  /\ stopPc["router"] = "ret"
  /\ stopPc' = [stopPc EXCEPT !["router"] = "none"]
  /\ sent' = [sent EXCEPT !["router"] = <<>>]
  /\ trace' = Append(trace, Step("killDelay", TRUE))
  /\ pc' = AfterKillDelay
  /\ UNCHANGED <<app, running, cmd, mu, procs, reaper, rtarget, panicked, hk,
                 result, left, started, waiter, startRet>>
  /\ UNCHANGED <<client, wvars, rvars, xvars>>

\* Restart goes on with the stage p.
Continue(p) ==
  /\ pc' = p
  /\ UNCHANGED <<result, started>>

\* Restart whose pre-hook loop never looks at StopOnError (lines 66-68
\* missing).
PreHookLenient ==
  /\ ~panicked
  /\ pc = "pre"
  /\ hk < app.NPre
  /\ \E ok \in BOOLEAN :
       /\ trace' = Append(trace, Step("pre", ok))
       /\ IF hk + 1 = app.NPre
            THEN Continue(AfterPre) /\ hk' = 0
            ELSE Continue("pre") /\ hk' = hk + 1
  /\ UNCHANGED <<app, running, cmd, mu, procs, sent, reaper, rtarget, panicked,
                 left, stopPc, waiter, startRet>>
  /\ UNCHANGED <<client, wvars, rvars, xvars>>

\* Lines 61-71: one pre-hook command; ok is what runCommand returns.
PreHook ==
  /\ ~panicked
  /\ pc = "pre"
  /\ hk < app.NPre
  /\ \E ok \in BOOLEAN :
       /\ trace' = Append(trace, Step("pre", ok))
       /\ IF ~ok /\ app.StopOnError
            THEN Return("err") /\ hk' = 0
            ELSE IF hk + 1 = app.NPre
              THEN Continue(AfterPre) /\ hk' = 0
              ELSE Continue("pre") /\ hk' = hk + 1
  /\ UNCHANGED <<app, running, cmd, mu, procs, sent, reaper, rtarget, panicked,
                 left, stopPc, waiter, startRet>>
  /\ UNCHANGED <<client, wvars, rvars, xvars>>

\* Restart whose failed build aborts only under StopOnError (line 89 missing).
BuildNoAbort ==
  /\ ~panicked
  /\ pc = "build"
  /\ \E ok \in BOOLEAN :
       IF ok
         THEN /\ trace' = Append(trace, Step("build", TRUE))
              /\ Continue(AfterBuild)
       ELSE IF ~app.Rerun /\ app.StopOnError
         THEN /\ trace' = Append(trace, Step("build", FALSE))
              /\ Return("err")
       ELSE /\ trace' = trace \o <<Step("build", FALSE), Step("rerunDelay", TRUE)>>
            /\ Continue(AfterBuild)
  /\ UNCHANGED <<app, running, cmd, mu, procs, sent, reaper, rtarget, panicked,
                 hk, left, started, stopPc, waiter, startRet>>
  /\ UNCHANGED <<client, wvars, rvars, xvars>>

\* Restart whose failed build always aborts (the Rerun test of line 85 missing).
BuildAlwaysAbort ==
  /\ ~panicked
  /\ pc = "build"
  /\ \E ok \in BOOLEAN :
       IF ok
         THEN /\ trace' = Append(trace, Step("build", TRUE))
              /\ Continue(AfterBuild)
         ELSE /\ trace' = Append(trace, Step("build", FALSE))
              /\ Return("err")
  /\ UNCHANGED <<app, running, cmd, mu, procs, sent, reaper, rtarget, panicked,
                 hk, left, started, stopPc, waiter, startRet>>
  /\ UNCHANGED <<client, wvars, rvars, xvars>>

\* Lines 78-102: the build command; when it fails and Rerun is set, the
\* RerunDelay sleep follows.
\* Lines 99-101: the binary is tracked for CleanUp after every build the
\* Restart goes on from.
TrackBin ==
  tmpFiles' = IF cleanApp.Bin # "" /\ cleanApp.CleanOnExit
                THEN tmpFiles + 1 ELSE tmpFiles

\* A build that succeeds leaves the binary, and the directory it lies in.
Built ==
  IF cleanApp.Bin = "" THEN disk
  ELSE IF cleanApp.Bin = "in" THEN disk \cup {"bin", "tmp"}
  ELSE disk \cup {"bin"}

Build ==
  /\ ~panicked
  /\ pc = "build"
  /\ \E ok \in BOOLEAN :
       IF ok
         THEN /\ trace' = Append(trace, Step("build", TRUE))
              /\ Continue(AfterBuild)
              /\ TrackBin
              /\ disk' = Built
       ELSE IF ~app.Rerun
         THEN /\ trace' = Append(trace, Step("build", FALSE))
              /\ Return("err")
              /\ UNCHANGED <<tmpFiles, disk>>
       ELSE /\ trace' = trace \o <<Step("build", FALSE), Step("rerunDelay", TRUE)>>
            /\ Continue(AfterBuild)
            /\ TrackBin
            /\ disk' = disk
  /\ UNCHANGED <<app, running, cmd, mu, procs, sent, reaper, rtarget, panicked,
                 hk, left, stopPc, waiter, startRet>>
  /\ UNCHANGED <<client, wvars, rvars>>
  /\ UNCHANGED <<exist, touched, watched, fleet, evars, cleanApp, cleanLog, run, rmu>>

\* Lines 104-114: one post-hook command.
PostHook ==
  /\ ~panicked
  /\ pc = "post"
  /\ hk < app.NPost
  /\ \E ok \in BOOLEAN :
       /\ trace' = Append(trace, Step("post", ok))
       /\ IF ~ok /\ app.StopOnError
            THEN Return("err") /\ hk' = 0
            ELSE IF hk + 1 = app.NPost
              THEN Continue("start") /\ hk' = 0
              ELSE Continue("post") /\ hk' = hk + 1
  /\ UNCHANGED <<app, running, cmd, mu, procs, sent, reaper, rtarget, panicked,
                 left, stopPc, waiter, startRet>>
  /\ UNCHANGED <<client, wvars, rvars, xvars>>

\* Restart that returns a Start error only under StopOnError (line 128 missing).
RestartStartLenient ==
  /\ ~panicked
  /\ pc = "start"
  /\ \E o \in {"ok", "fail"} : Start(o)
  /\ trace' = trace \o <<Step("startDelay", TRUE), Step("start", StartOk)>>
  /\ Return(IF StartOk \/ ~app.StopOnError THEN "ok" ELSE "err")
  /\ UNCHANGED <<app, panicked, hk, left, stopPc, waiter>>
  /\ UNCHANGED <<client, wvars, rvars, xvars>>

\* Lines 116-131: the Delay sleep, then Start; any error of Start is returned
\* (wrapped or not).
RestartStart ==
  /\ ~panicked
  /\ pc = "start"
  /\ \E o \in {"ok", "fail"} : Start(o)
  /\ trace' = trace \o <<Step("startDelay", TRUE), Step("start", StartOk)>>
  /\ Return(IF StartOk THEN "ok" ELSE "err")
  /\ UNCHANGED <<app, panicked, hk, left, stopPc, waiter>>
  /\ UNCHANGED <<client, wvars, rvars, xvars>>

Restart ==
  \/ RestartBegin
  \/ KillDelay
  \/ PreHook
  \/ Build
  \/ PostHook
  \/ RestartStart

\* --------------------------------------------- Manager.CleanUp (process.go)
\* CleanUp that reports every failed os.Remove (the IsNotExist test of line
\* 349 missing).
RemoveReportsAll(d) ==
  IF "bin" \in d /\ "ro" \in d THEN tmpFiles
  ELSE IF "bin" \in d THEN tmpFiles - 1
  ELSE tmpFiles

\* Lines 348-354: os.Remove of every tracked entry, each of them app.Bin. An
\* error is reported unless it is IsNotExist: a binary that cannot be unlinked
\* is reported once per entry, a binary already gone is not.
RemoveReports(d) == IF "bin" \in d /\ "ro" \in d THEN tmpFiles ELSE 0

AfterRemove(d) ==
  IF tmpFiles > 0 /\ "ro" \notin d THEN d \ {"bin"} ELSE d

\* Lines 356-358: os.RemoveAll(TmpDir), its error dropped; a binary inside
\* that cannot be unlinked keeps the directory.
AfterRemoveAll(d) ==
  IF cleanApp.TmpDir \in {"", ".", "/"} THEN d
  ELSE IF cleanApp.Bin = "in" /\ "bin" \in d
    THEN (IF "ro" \in d THEN d ELSE d \ {"bin", "tmp"})
  ELSE d \ {"tmp"}

\* Lines 343-359, the whole call (it takes no lock).
CleanUpM ==
  IF ~cleanApp.CleanOnExit
    THEN /\ disk' = disk
         /\ cleanLog' = Append(cleanLog, 0)
    ELSE /\ disk' = AfterRemoveAll(AfterRemove(disk))
         /\ cleanLog' = Append(cleanLog, RemoveReports(disk))

\* A caller of the exported CleanUp.
CleanUp ==
  /\ ~panicked
  /\ Len(cleanLog) < MaxCleanUps
  /\ CleanUpM
  /\ UNCHANGED <<mvars, wvars, rvars>>
  /\ UNCHANGED <<exist, touched, watched, fleet, evars, cleanApp, tmpFiles, run, rmu>>

\* -------------------------------------------- Runner.Shutdown (runner.go)
\* Lines 208-217: the goroutine of Shutdown that calls manager.Stop.  Run
\* calls Shutdown only after every startApp, hence the first Restart, is over.
ShutdownStopM ==
  /\ ~panicked
  /\ stopPc["shutdown"] = "none"
  /\ started # "no"
  /\ stopPc' = [stopPc EXCEPT !["shutdown"] = "call"]
  /\ UNCHANGED <<app, running, cmd, mu, procs, sent, reaper, rtarget, panicked,
                 pc, hk, trace, result, left, started, waiter, startRet>>
  /\ UNCHANGED client

ShutdownStop ==
  /\ ShutdownStopM
  /\ UNCHANGED <<wvars, rvars, xvars>>

\* Stop has returned to the goroutine: wg.Done().
ShutdownStopped ==
  /\ ~panicked
  /\ stopPc["shutdown"] = "ret"
  /\ stopPc' = [stopPc EXCEPT !["shutdown"] = "done"]
  /\ sent' = [sent EXCEPT !["shutdown"] = <<>>]
  /\ UNCHANGED <<app, running, cmd, mu, procs, reaper, rtarget, panicked,
                 pc, hk, trace, result, left, started, waiter, startRet>>
  /\ UNCHANGED <<client, wvars, rvars, xvars>>

\* ------------------------------------------ a caller of the exported methods
\* Manager.Start called directly (process.go line 192): it takes the lock,
\* runs and returns in one step, as in RestartStart.
ClientStart ==
  /\ ~panicked
  /\ client = "idle"
  /\ left > 0
  /\ left' = left - 1
  /\ \E o \in {"ok", "fail"} : Start(o)
  /\ client' = "start"
  /\ UNCHANGED <<app, panicked, pc, hk, trace, result, started, stopPc, waiter>>
  /\ UNCHANGED <<wvars, rvars, xvars>>

\* Manager.Stop called directly (process.go line 268).
ClientStop ==
  /\ ~panicked
  /\ client = "idle"
  /\ left > 0
  /\ left' = left - 1
  /\ client' = "stop"
  /\ stopPc' = [stopPc EXCEPT !["client"] = "call"]
  /\ UNCHANGED <<app, running, cmd, mu, procs, sent, reaper, rtarget, panicked,
                 pc, hk, trace, result, started, waiter, startRet>>
  /\ UNCHANGED <<wvars, rvars, xvars>>

\* The call has returned and the caller drops the result.
ClientDone ==
  /\ ~panicked
  /\ IF client = "start" THEN TRUE
     ELSE client = "stop" /\ stopPc["client"] = "ret"
  /\ client' = "idle"
  /\ stopPc' = [stopPc EXCEPT !["client"] = "none"]
  /\ sent' = [sent EXCEPT !["client"] = <<>>]
  /\ startRet' = "none"
  /\ UNCHANGED <<app, running, cmd, mu, procs, reaper, rtarget, panicked,
                 pc, hk, trace, result, left, started, waiter>>
  /\ UNCHANGED <<wvars, rvars, xvars>>

Reaper(g) ==
  \/ ReaperRead(g)
  \/ ReaperClear(g)

vars == <<mvars, wvars, rvars, xvars>>

Init == MInit(MaxRestarts) /\ WIdle /\ RIdle

Next ==
  \/ Restart
  \/ Stop("router")
  \/ ShutdownStop
  \/ Stop("shutdown")
  \/ ShutdownStopped
  \/ \E g \in Gens : Reaper(g)
  \/ \E g \in Gens : ProcExit(g)

Spec == Init /\ [][Next]_vars

\* One restart more than Spec: room for three generations of the child.
InitLong == MInit(MaxRestarts + 1) /\ WIdle /\ RIdle

SpecLong == InitLong /\ [][Next]_vars

\* One Restart of an application with a pre_cmd and a post_cmd list of more
\* than one command each.
InitH ==
  /\ app \in [StopOnError : BOOLEAN, Rerun : {FALSE}, HasBuild : {TRUE},
               Run : {"cmd"}, SendInterrupt : {FALSE},
               NPre : {MaxHooks + 1}, NPost : {MaxHooks + 1}]
  /\ MReset(1)
  /\ WIdle
  /\ RIdle

SpecH == InitH /\ [][Next]_vars

\* Restarts of an application that builds and runs nothing, with calls of
\* CleanUp in between, over every setting of clean_on_exit, bin and tmp_dir
\* and every state of the disk.
InitC ==
  /\ app \in [StopOnError : {FALSE}, Rerun : BOOLEAN, HasBuild : {TRUE},
               Run : {"none"}, SendInterrupt : {FALSE}, NPre : {0}, NPost : {0}]
  /\ MReset(MaxRestarts)
  /\ WIdle
  /\ wst = "new"
  /\ done = FALSE
  /\ rpc = "none"
  /\ sd = [c \in SdCallers |-> "idle"]
  /\ exist = {}
  /\ touched = <<>>
  /\ watched = {}
  /\ fleet = <<>>
  /\ Errors = 0
  /\ rawErr = FALSE
  /\ run = <<>>
  /\ rmu = LIdle
  /\ cleanApp \in {c \in [CleanOnExit : BOOLEAN, Bin : {"", "in", "out"},
                           TmpDir : {"", ".", "/", "dir"}] :
                      c.Bin = "in" => c.TmpDir # ""}
  /\ tmpFiles = 0
  /\ disk \in {d \in SUBSET {"bin", "tmp", "ro"} :
                 /\ "bin" \in d => cleanApp.Bin # ""
                 /\ ("bin" \in d /\ cleanApp.Bin = "in") => "tmp" \in d}
  /\ cleanLog = <<>>

NextC ==
  \/ RestartBegin
  \/ StopEnter("router")
  \/ KillDelay
  \/ Build
  \/ RestartStart
  \/ CleanUp

SpecC == InitC /\ [][NextC]_vars

\* The Manager driven through its exported methods: next to the routing task
\* a client calls Start and Stop as it likes (in place of Shutdown).
NextAPI ==
  \/ Restart
  \/ Stop("router")
  \/ ClientStart
  \/ ClientStop
  \/ Stop("client")
  \/ ClientDone
  \/ \E g \in Gens : Reaper(g)
  \/ \E g \in Gens : ProcExit(g)

SpecAPI == Init /\ [][NextAPI]_vars

\* What the Go scheduler and the kernel guarantee: a runnable goroutine runs,
\* a timer that is due fires, and a process that got SIGKILL dies.
KilledExit == \E t \in Callers : stopPc[t] = "killed" /\ ProcExit(cmd)

Fairness ==
  /\ WF_vars(KillDelay \/ PreHook \/ Build \/ PostHook \/ RestartStart)
  /\ WF_vars(Stop("router"))
  /\ WF_vars(Stop("shutdown"))
  /\ WF_vars(ShutdownStopped)
  /\ WF_vars(KilledExit)
  /\ \A g \in Gens : WF_vars(Reaper(g))

SpecFair == Init /\ [][Next]_vars /\ Fairness



\* ---------------------------------------------------- Watcher (watcher.go)
\* A path is a sequence of characters.
LastIndex(s, c) ==
  LET hits == {i \in 1..Len(s) : s[i] = c}
  IN  IF hits = {} THEN 0 ELSE CHOOSE i \in hits : \A j \in hits : j <= i

Contains(s, sub) ==
  \E i \in 1..(Len(s) - Len(sub) + 1) : SubSeq(s, i, i + Len(sub) - 1) = sub

HasPrefix(s, pre) == Len(s) >= Len(pre) /\ SubSeq(s, 1, Len(pre)) = pre

HasSuffix(s, suf) ==
  Len(s) >= Len(suf) /\ SubSeq(s, Len(s) - Len(suf) + 1, Len(s)) = suf

\* filepath.Base and filepath.Ext, for paths without a trailing slash.
Base(s) ==
  IF s = <<>> THEN <<".">> ELSE SubSeq(s, LastIndex(s, "/") + 1, Len(s))

Ext(s) ==
  LET b == SubSeq(s, LastIndex(s, "/") + 1, Len(s))
      d == LastIndex(b, ".")
  IN  IF d = 0 THEN <<>> ELSE SubSeq(b, d, Len(b))

\* filepath.Match for patterns made of literal characters, * and ? (neither
\* matches the separator).
RECURSIVE Match(_, _)
Match(pat, s) ==
  IF pat = <<>> THEN s = <<>>
  ELSE IF Head(pat) = "*"
    THEN \E k \in 0..Len(s) :
           /\ \A j \in 1..k : s[j] # "/"
           /\ Match(Tail(pat), SubSeq(s, k + 1, Len(s)))
  ELSE IF s = <<>> THEN FALSE
  ELSE IF Head(pat) = "?" THEN s[1] # "/" /\ Match(Tail(pat), Tail(s))
  ELSE Head(pat) = s[1] /\ Match(Tail(pat), Tail(s))

\* regexp.MatchString for a regular expression that is a literal text with
\* an optional ^ in front and an optional $ behind.
MatchString(re, s) ==
  IF re.front /\ re.back THEN s = re.text
  ELSE IF re.front THEN HasPrefix(s, re.text)
  ELSE IF re.back THEN HasSuffix(s, re.text)
  ELSE Contains(s, re.text)

\* The names New puts into ignoreDirs (lines 37-40).
ignoreDirs ==
  << <<"t", "m", "p">>, <<".", "t", "m", "p">>,
     <<"v", "e", "n", "d", "o", "r">>, <<".", "g", "i", "t">>,
     <<".", "i", "d", "e", "a">>, <<".", "v", "s", "c", "o", "d", "e">>,
     <<"n", "o", "d", "e", "_", "m", "o", "d", "u", "l", "e", "s">>,
     <<"d", "i", "s", "t">>, <<"b", "u", "i", "l", "d">>,
     <<".", "n", "e", "x", "t">>, <<".", "n", "u", "x", "t">> >>

\* shouldIgnore without the loop over excludeDirs (lines 175-179).
shouldIgnoreNoExcludeDirs(path) ==
  LET base == Base(path) IN
    \/ HasPrefix(base, <<".">>) /\ base # <<".">> /\ base # <<".", ".">>
    \/ \E k \in 1..Len(ignoreDirs) : base = ignoreDirs[k]
    \/ \E k \in 1..Len(excludeRegex) : MatchString(excludeRegex[k], path)

\* Lines 162-188.
shouldIgnore(path) ==
  LET base == Base(path) IN
    \/ HasPrefix(base, <<".">>) /\ base # <<".">> /\ base # <<".", ".">>
    \/ \E k \in 1..Len(ignoreDirs) : base = ignoreDirs[k]
    \/ \E k \in 1..Len(excludeDirs) :
         \/ base = excludeDirs[k]
         \/ Contains(path, <<"/">> \o excludeDirs[k] \o <<"/">>)
    \/ \E k \in 1..Len(excludeRegex) : MatchString(excludeRegex[k], path)

\* shouldSkipEvent with the tests of line 199 made on the whole path.
shouldSkipEventOnName(e) ==
  \/ e.Op = "chmod"
  \/ HasSuffix(e.Name, <<"~">>)
  \/ HasPrefix(e.Name, <<".", "#">>)
  \/ Ext(e.Name) \in {<<".", "s", "w", "p">>, <<".", "s", "w", "o">>,
                      <<".", "s", "w", "x">>}
  \/ Contains(e.Name, <<"t", "e", "s", "t", ".", "t", "e", "s", "t">>)
  \/ \E k \in 1..Len(excludeFiles) : Match(excludeFiles[k], Base(e.Name))
  \/ \E k \in 1..Len(excludeRegex) : MatchString(excludeRegex[k], e.Name)

\* Lines 190-224.
shouldSkipEvent(e) ==
  \/ e.Op = "chmod"
  \/ HasSuffix(Base(e.Name), <<"~">>)
  \/ HasPrefix(Base(e.Name), <<".", "#">>)
  \/ Ext(e.Name) \in {<<".", "s", "w", "p">>, <<".", "s", "w", "o">>,
                      <<".", "s", "w", "x">>}
  \/ Contains(e.Name, <<"t", "e", "s", "t", ".", "t", "e", "s", "t">>)
  \/ \E k \in 1..Len(excludeFiles) : Match(excludeFiles[k], Base(e.Name))
  \/ \E k \in 1..Len(excludeRegex) : MatchString(excludeRegex[k], e.Name)

\* The raw events fsnotify delivers in SpecW.
Names ==
  {<<"s", "/", "a", ".", "g", "o">>, <<"s", "/", "a", ".", "g", "o", "~">>,
   <<"s", "/", ".", "#", "a">>, <<"a", ".", "s", "w", "p">>,
   <<"s", "~", "/", "b">>, <<"s", "/", "x", ".", "l", "o", "g">>,
   <<"s", "/", ".", "s", "w", "x">>, <<"s", "/", "a", ".", "s", "w", "p", "x">>}

\* fsnotify.Op: single operations, and a write reported together with a chmod.
Ops == {"write", "create", "chmod", "write|chmod"}

RawEvents == [Op : Ops, Name : Names]

\* What fsnotify delivers in SpecW: MaxEvents events, each one a write of a
\* source file or a chmod of it.
Written == [Op |-> "write", Name |-> <<"s", "/", "a", ".", "g", "o">>]
Chmodded == [Op |-> "chmod", Name |-> <<"s", "/", "a", ".", "g", "o">>]
FeedsW == [1..MaxEvents -> {Written, Chmodded}]

\* The exclude_file lists SetExcludes is given in SpecW.
ExcludeFileLists ==
  {<<>>, << <<"*", ".", "l", "o", "g">> >>,
   << <<"b">>, <<"?", ".", "g", "o">> >>}

\* timer.Stop(): an armed timer never fires; a fired one is left alone.
StopTimer(ts, i) ==
  IF ts[i].st = "armed" THEN [ts EXCEPT ![i].st = "stopped"] ELSE ts

\* Lines 112-132: one raw event is received; a skipped one changes nothing;
\* otherwise the pending timer is stopped when timerActive says there is one,
\* and a fresh timer is armed.
HandleEvent ==
  /\ wst = "running"
  /\ wpc = "select"
  /\ fed < Len(feed)
  /\ fed' = fed + 1
  /\ LET e == feed[fed + 1] IN
       IF shouldSkipEvent(e)
         THEN UNCHANGED <<wpc, timers, timer, evTime>>
         ELSE /\ LET ts == IF timerActive /\ timer # 0
                             THEN StopTimer(timers, timer) ELSE timers
                 IN  timers' = Append(ts, [at |-> now, st |-> "armed",
                                           sent |-> FALSE, emitAt |-> 0])
              /\ timer' = Len(timers) + 1
              /\ evTime' = Append(evTime, now)
              /\ wpc' = "set"
  /\ UNCHANGED <<now, timerActive, Events>>
  /\ UNCHANGED <<mvars, rvars, xvars, wcfg, feed>>

\* Lines 133-141: timerActive = true; an event that created a directory
\* shouldIgnore lets through has that one directory registered.
SetActive ==
  /\ wpc = "set"
  /\ timerActive' = TRUE
  /\ wpc' = "select"
  /\ LET e == feed[fed] IN
       watched' = IF e.Op = "create" /\ e.Name \in exist /\ ~shouldIgnore(e.Name)
                    THEN watched \cup {e.Name} ELSE watched
  /\ UNCHANGED <<now, timers, timer, Events, evTime>>
  /\ UNCHANGED <<mvars, rvars, exist, touched, fleet, wcfg, feed, fed>>
  /\ UNCHANGED <<evars, avars, run, rmu>>

Due(i) == timers[i].st = "armed" /\ now >= timers[i].at + DebounceTicks

\* The runtime starts the callback of a timer that is due, in a goroutine of
\* its own.
TimerFire(i) ==
  /\ i \in 1..Len(timers)
  /\ Due(i)
  /\ timers' = [timers EXCEPT ![i].st = "fired"]
  /\ UNCHANGED <<now, wpc, timer, timerActive, Events, evTime>>
  /\ UNCHANGED <<mvars, rvars, xvars, wcfg, feed, fed>>

\* The callback with a send that finds no room (Events made without a buffer
\* while handleFileChanges is not at its receive).
CallbackEmitNoRoom(i) ==
  /\ i \in 1..Len(timers)
  /\ timers[i].st = "fired"
  /\ Events' = Events
  /\ timers' = [timers EXCEPT ![i].st = "emitted", ![i].emitAt = now]
  /\ UNCHANGED <<now, wpc, timer, timerActive, evTime>>
  /\ UNCHANGED <<mvars, rvars, xvars, wcfg, feed, fed>>

\* Lines 126-130: the non-blocking send.
CallbackEmit(i) ==
  /\ i \in 1..Len(timers)
  /\ timers[i].st = "fired"
  /\ IF Events = 0
       THEN /\ Events' = 1
            /\ timers' = [timers EXCEPT ![i].st = "emitted", ![i].sent = TRUE,
                                        ![i].emitAt = now]
       ELSE /\ Events' = Events
            /\ timers' = [timers EXCEPT ![i].st = "emitted", ![i].emitAt = now]
  /\ UNCHANGED <<now, wpc, timer, timerActive, evTime>>
  /\ UNCHANGED <<mvars, rvars, xvars, wcfg, feed, fed>>

\* Line 131: the callback's unsynchronised write of run's local.
CallbackClear(i) ==
  /\ i \in 1..Len(timers)
  /\ timers[i].st = "emitted"
  /\ timerActive' = FALSE
  /\ timers' = [timers EXCEPT ![i].st = "done"]
  /\ UNCHANGED <<now, wpc, timer, Events, evTime>>
  /\ UNCHANGED <<mvars, rvars, xvars, wcfg, feed, fed>>

\* Time passes once every timer that is due has fired and every goroutine
\* that can run has run.
Tick ==
  /\ now < MaxTime
  /\ wpc = "select"
  /\ \A i \in 1..Len(timers) :
       ~Due(i) /\ timers[i].st \notin {"fired", "emitted"}
  /\ now' = now + 1
  /\ UNCHANGED <<wpc, timers, timer, timerActive, Events, evTime>>
  /\ UNCHANGED <<mvars, rvars, xvars, wcfg, feed, fed>>

\* Time as the specifications of the Runner and of the watch list follow it: only while a debounce
\* timer is armed, the one thing there that waits for the clock.
Elapse ==
  /\ \E i \in 1..Len(timers) : timers[i].st = "armed"
  /\ Tick

\* handleFileChanges (runner.go) receives a signal from Events.
Consume ==
  /\ Events = 1
  /\ Events' = 0
  /\ UNCHANGED <<now, wpc, timers, timer, timerActive, evTime>>
  /\ UNCHANGED <<mvars, rvars, xvars, wcfg, feed, fed>>

NextW ==
  \/ HandleEvent
  \/ SetActive
  \/ \E i \in 1..MaxEvents : TimerFire(i)
  \/ \E i \in 1..MaxEvents : CallbackEmit(i)
  \/ \E i \in 1..MaxEvents : CallbackClear(i)
  \/ Tick
  \/ Consume

\* The Watcher of an application whose Manager stays as constructed.
InitW ==
  /\ MInit(0)
  /\ WRun
  /\ RWatching
  /\ feed \in FeedsW
  /\ excludeDirs = <<>>
  /\ excludeFiles = <<>>
  /\ excludeRegex = <<>>
  /\ app = [StopOnError |-> FALSE, Rerun |-> FALSE, HasBuild |-> FALSE,
            Run |-> "cmd", SendInterrupt |-> FALSE, NPre |-> 0, NPost |-> 0]

SpecW == InitW /\ [][NextW]_vars

\* One Watcher with an exclude_file list, given one raw event of any kind,
\* alone or after a write that has armed the timer.
InitF ==
  /\ MInit(0)
  /\ app = [StopOnError |-> FALSE, Rerun |-> FALSE, HasBuild |-> FALSE,
            Run |-> "cmd", SendInterrupt |-> FALSE, NPre |-> 0, NPost |-> 0]
  /\ WRun
  /\ RWatching
  /\ \E e \in RawEvents : feed \in {<<e>>, <<Written, e>>}
  /\ excludeDirs = <<>>
  /\ excludeFiles \in ExcludeFileLists
  /\ excludeRegex = <<>>

SpecF == InitF /\ [][NextW]_vars

\* ------------------------------------------- the watch list (watcher.go)
\* The directory a path is an entry of.
Parent(p) == SubSeq(p, 1, LastIndex(p, "/") - 1)

\* The watch root (an absolute path, config.go:187-190) and the directories
\* that may exist below it; x is the excluded name.
Root == <<"/", "r">>

TreeDirs ==
  {Root, Root \o <<"/", "a">>, Root \o <<"/", "a", "/", "x">>,
   Root \o <<"/", "a", "/", "x", "/", "a">>, Root \o <<"/", "a", "/", "b">>}

\* The names of the files written: g is what the exclude regex matches.
FileNames == {<<"f">>, <<"g">>}

\* p and the directories above it, up to the root.
UpToRoot(p) ==
  {SubSeq(p, 1, k) : k \in {j \in Len(Root)..Len(p) : j = Len(p) \/ p[j + 1] = "/"}}

\* Lines 68-93: filepath.Walk registers every directory it reaches, and
\* reaches what is not below an ignored directory (SkipDir), the root included.
Walk(dirs) == {d \in dirs : \A q \in UpToRoot(d) : ~shouldIgnore(q)}

\* The kernel reports a change to an entry of a registered directory;
\* fsnotify queues the event for run.
Notify(op, p) ==
  IF Parent(p) \in watched
    THEN /\ Len(feed) < MaxEvents
         /\ feed' = Append(feed, [Op |-> op, Name |-> p])
    ELSE feed' = feed

\* A directory is made below the root.
Mkdir(d) ==
  /\ d \in TreeDirs \ exist
  /\ Parent(d) \in exist
  /\ exist' = exist \cup {d}
  /\ touched' = d
  /\ Notify("create", d)
  /\ UNCHANGED <<now, wpc, timers, timer, timerActive, Events, evTime, fed, wcfg>>
  /\ UNCHANGED <<mvars, rvars, watched, fleet, evars, avars, run, rmu>>

\* A file is written in an existing directory.
WriteFile(d, f) ==
  /\ d \in exist
  /\ touched' = d \o <<"/">> \o f
  /\ Notify("write", d \o <<"/">> \o f)
  /\ UNCHANGED <<now, wpc, timers, timer, timerActive, Events, evTime, fed, wcfg>>
  /\ UNCHANGED <<mvars, rvars, exist, watched, fleet, evars, avars, run, rmu>>

NextD ==
  \/ \E d \in TreeDirs : Mkdir(d)
  \/ \E d \in TreeDirs, f \in FileNames : WriteFile(d, f)
  \/ HandleEvent
  \/ SetActive
  \/ \E i \in 1..MaxEvents : TimerFire(i)
  \/ \E i \in 1..MaxEvents : CallbackEmit(i)
  \/ \E i \in 1..MaxEvents : CallbackClear(i)
  \/ Elapse

\* A Watcher with exclude_dir x and exclude_regex g$, after Watch and Start
\* over some tree that holds the root.
InitD ==
  /\ MInit(0)
  /\ app = Plain
  /\ WRun
  /\ wst = "running"
  /\ done = FALSE
  /\ rpc = "none"
  /\ sd = [c \in SdCallers |-> "idle"]
  /\ feed = <<>>
  /\ excludeDirs = << <<"x">> >>
  /\ excludeFiles = <<>>
  /\ excludeRegex = << [front |-> FALSE, back |-> TRUE, text |-> <<"g">>] >>
  /\ exist \in {t \in SUBSET TreeDirs : Root \in t /\ \A d \in t \ {Root} : Parent(d) \in t}
  /\ touched = <<>>
  /\ watched = Walk(exist)
  /\ fleet = <<>>
  /\ YIdle

SpecD == InitD /\ [][NextD]_vars

\* --------------------------------------- Watch on a root of any base name
\* Watch roots: a plain name, one of ignoreDirs, a hidden one, the excluded
\* one.
Roots == {<<"/", "r">>, <<"/", "t", "m", "p">>, <<"/", ".", "r">>, <<"/", "x">>}

RootTrees(r) == {{r}, {r, r \o <<"/", "a">>}}

\* The directory Watch is called with: the top of the tree that exists.
rootDir == CHOOSE d \in exist : \A e \in exist : HasPrefix(e, d)

\* Lines 68-93 for any root: the callback is called on the root first, and
\* its SkipDir there ends filepath.Walk with a nil error.
WalkFrom(root, dirs) ==
  {d \in dirs :
     \A k \in Len(root)..Len(d) :
       (k = Len(d) \/ d[k + 1] = "/") => ~shouldIgnore(SubSeq(d, 1, k))}

\* startApp, lines 145-149: Watch(app.WatchDir) returns nil and Start
\* spawns run.
Watch ==
  /\ wst = "new"
  /\ wst' = "running"
  /\ watched' = WalkFrom(rootDir, exist)
  /\ UNCHANGED <<done, rpc, sd, exist, touched, fleet, evars, avars, run, rmu>>
  /\ UNCHANGED <<mvars, wvars>>

NextK ==
  \/ Watch
  \/ \E r \in Roots, f \in FileNames : \E d \in {r, r \o <<"/", "a">>} :
       wst = "running" /\ WriteFile(d, f)
  \/ HandleEvent
  \/ SetActive
  \/ \E i \in 1..MaxEvents : TimerFire(i)
  \/ \E i \in 1..MaxEvents : CallbackEmit(i)
  \/ \E i \in 1..MaxEvents : CallbackClear(i)
  \/ Elapse

\* A Watcher with exclude_dir x, as New and SetExcludes leave it, over an
\* existing root.
InitK ==
  /\ MInit(0)
  /\ app = Plain
  /\ WRun
  /\ wst = "new"
  /\ done = FALSE
  /\ rpc = "none"
  /\ sd = [c \in SdCallers |-> "idle"]
  /\ feed = <<>>
  /\ excludeDirs = << <<"x">> >>
  /\ excludeFiles = <<>>
  /\ excludeRegex = <<>>
  /\ \E r \in Roots : exist \in RootTrees(r)
  /\ touched = <<>>
  /\ watched = {}
  /\ fleet = <<>>
  /\ YIdle

SpecK == InitK /\ [][NextK]_vars

\* ---------------------------------------------------------------- Runner
\* startApp, lines 127-129: the initial Restart, made before the Watcher.
StartAppRestart ==
  /\ started = "no"
  /\ RestartBeginM
  /\ UNCHANGED <<wvars, rvars, xvars>>

\* startApp spawning handleFileChanges without having waited for its own
\* Restart.
StartAppWatchEarly ==
  /\ ~panicked
  /\ rpc = "none"
  /\ wst = "new"
  /\ wst' = "running"
  /\ rpc' = "select"
  /\ UNCHANGED <<done, sd>>
  /\ UNCHANGED <<mvars, wvars, xvars>>

\* startApp, lines 131-152, once the initial Restart has returned nil: the
\* Watcher is made and started and handleFileChanges is spawned.
StartAppWatch ==
  /\ ~panicked
  /\ started = "ok"
  /\ pc = "idle"
  /\ rpc = "none"
  /\ wst = "new"
  /\ wst' = "running"
  /\ rpc' = "select"
  /\ UNCHANGED <<done, sd>>
  /\ UNCHANGED <<mvars, wvars, xvars>>

\* handleFileChanges, lines 160-166: the select takes the signal and calls
\* Restart.
RouteSignal ==
  /\ rpc = "select"
  /\ Events = 1
  /\ Events' = 0
  /\ rpc' = "restart"
  /\ RestartBeginM
  /\ UNCHANGED <<now, wpc, timers, timer, timerActive, evTime, feed, fed, wcfg>>
  /\ UNCHANGED <<wst, done, sd>>
  /\ UNCHANGED xvars

\* handleFileChanges, lines 162-166: Restart has returned, back to the select.
RouteReturn ==
  /\ ~panicked
  /\ rpc = "restart"
  /\ pc = "idle"
  /\ rpc' = "select"
  /\ UNCHANGED <<wst, done, sd>>
  /\ UNCHANGED <<mvars, wvars, xvars>>

\* handleFileChanges, lines 171-172: the select takes the closed done channel.
\* With a signal in Events as well, both cases are ready and the select takes
\* either.
RouteExit ==
  /\ ~panicked
  /\ rpc = "select"
  /\ done
  /\ rpc' = "exited"
  /\ UNCHANGED <<wst, done, sd>>
  /\ UNCHANGED <<mvars, wvars, xvars>>

\* A call of Shutdown. Run calls it once all startApp have returned: at once
\* when one failed (lines 93-101), on an interrupt otherwise (lines 105-108);
\* Shutdown is exported, and another caller may call it as well.
ShutdownInvoke(c) ==
  /\ ~panicked
  /\ sd[c] = "idle"
  /\ IF c = "run" THEN started = "failed" \/ rpc # "none"
                  ELSE started # "no" /\ pc = "idle"
  /\ sd' = [sd EXCEPT ![c] = "call"]
  /\ UNCHANGED <<wst, done, rpc>>
  /\ UNCHANGED <<mvars, wvars, xvars>>

\* Line 184: close(r.done); closing a closed channel panics.
ShutdownClose(c) ==
  /\ ~panicked
  /\ sd[c] = "call"
  /\ sd' = [sd EXCEPT ![c] = "closed"]
  /\ done' = TRUE
  /\ panicked' = done
  /\ UNCHANGED <<wst, rpc>>
  /\ UNCHANGED <<app, running, cmd, mu, procs, sent, reaper, rtarget, pc, hk,
                 trace, result, left, started, stopPc, waiter, startRet, client>>
  /\ UNCHANGED <<wvars, xvars>>

\* Shutdown that stops the Watchers before closing r.done (line 184 moved
\* below line 197 and lost).
ShutdownWatchersFirst(c) ==
  /\ ~panicked
  /\ sd[c] = "call"
  /\ sd' = [sd EXCEPT ![c] = "watchers"]
  /\ wst' = IF wst = "running" THEN "closing" ELSE wst
  /\ UNCHANGED <<done, rpc>>
  /\ UNCHANGED <<mvars, wvars, xvars>>

\* Lines 186-197 with Watcher.Stop (watcher.go:99-102): every registered
\* Watcher has its done channel and its fsnotify watcher closed.
ShutdownWatchers(c) ==
  /\ ~panicked
  /\ sd[c] = "closed"
  /\ sd' = [sd EXCEPT ![c] = "watchers"]
  /\ wst' = IF wst = "running" THEN "closing" ELSE wst
  /\ UNCHANGED <<done, rpc>>
  /\ UNCHANGED <<mvars, wvars, xvars>>

\* Lines 199-223: one goroutine per Manager calls its Stop.
ShutdownLaunch(c) ==
  /\ sd[c] = "watchers"
  /\ sd' = [sd EXCEPT ![c] = "stopping"]
  /\ ShutdownStopM
  /\ UNCHANGED <<wst, done, rpc>>
  /\ UNCHANGED <<wvars, xvars>>

\* Lines 225-227: every Stop has returned.
ShutdownJoin(c) ==
  /\ ~panicked
  /\ sd[c] = "stopping"
  /\ stopPc["shutdown"] = "done"
  /\ sd' = [sd EXCEPT ![c] = "waited"]
  /\ UNCHANGED <<wst, done, rpc>>
  /\ UNCHANGED <<mvars, wvars, xvars>>

\* Lines 228-230: the 10s watchdog fires first and the wait is abandoned.
ShutdownWatchdog(c) ==
  /\ ~panicked
  /\ sd[c] = "stopping"
  /\ stopPc["shutdown"] # "done"
  /\ sd' = [sd EXCEPT ![c] = "abandoned"]
  /\ UNCHANGED <<wst, done, rpc>>
  /\ UNCHANGED <<mvars, wvars, xvars>>

\* Lines 232-238: CleanUp of every Manager, removal of the session
\* directories, return. The position keeps which way the wait ended.
ShutdownReturn(c) ==
  /\ ~panicked
  /\ sd[c] \in {"waited", "abandoned"}
  /\ sd' = [sd EXCEPT ![c] = IF sd[c] = "waited" THEN "returned"
                                                ELSE "returned late"]
  /\ CleanUpM
  /\ UNCHANGED <<wst, done, rpc>>
  /\ UNCHANGED <<mvars, wvars>>
  /\ UNCHANGED <<exist, touched, watched, fleet, evars, cleanApp, tmpFiles, run, rmu>>

Shutdown(c) ==
  \/ ShutdownInvoke(c)
  \/ ShutdownClose(c)
  \/ ShutdownWatchers(c)
  \/ ShutdownLaunch(c)
  \/ ShutdownJoin(c)
  \/ ShutdownWatchdog(c)
  \/ ShutdownReturn(c)

\* watcher.go:104-160 after Stop: run returns by the done case (lines
\* 106-110), which stops the pending timer, or by a closed fsnotify channel
\* (lines 113-115, 144-146), which does not.
RunExit ==
  /\ ~panicked
  /\ wst = "closing"
  /\ wpc = "select"
  /\ wst' = "exited"
  /\ \/ timers' = timers
     \/ timer # 0 /\ timers' = StopTimer(timers, timer)
  /\ UNCHANGED <<now, wpc, timer, timerActive, Events, evTime, feed, fed, wcfg>>
  /\ UNCHANGED <<done, rpc, sd>>
  /\ UNCHANGED <<mvars, xvars>>

\* The steps of Restart after its first, for an application without hooks.
RestartSteps ==
  \/ KillDelay
  \/ Build
  \/ RestartStart

Watching ==
  \/ HandleEvent
  \/ SetActive
  \/ \E i \in 1..MaxEvents : TimerFire(i)
  \/ \E i \in 1..MaxEvents : CallbackEmit(i)
  \/ \E i \in 1..MaxEvents : CallbackClear(i)
  \/ Elapse
  \/ RunExit

NextS ==
  \/ StartAppRestart
  \/ StartAppWatch
  \/ RestartSteps
  \/ Stop("router")
  \/ RouteSignal
  \/ RouteReturn
  \/ RouteExit
  \/ Watching
  \/ Shutdown("run")
  \/ Stop("shutdown")
  \/ ShutdownStopped
  \/ \E g \in Gens : Reaper(g)
  \/ \E g \in Gens : ProcExit(g)

InitS ==
  /\ MInit(MaxRestarts)
  /\ app = Plain
  /\ WRun
  /\ RIdle
  /\ feed = [i \in 1..(MaxRestarts - 1) |-> Written]
  /\ excludeDirs = <<>>
  /\ excludeFiles = <<>>
  /\ excludeRegex = <<>>

SpecS == InitS /\ [][NextS]_vars

\* What the Go scheduler, the timers of the runtime and the kernel give the
\* tasks of SpecS: a goroutine that can take its next step takes it, a timer
\* that is due fires, time passes while a timer is armed, and fsnotify
\* delivers what it has.  No child is bound to exit before it is killed, and
\* no interrupt is bound to come.
ShutdownRuns(c) ==
  \/ ShutdownClose(c)
  \/ ShutdownWatchers(c)
  \/ ShutdownLaunch(c)
  \/ ShutdownJoin(c)
  \/ ShutdownWatchdog(c)
  \/ ShutdownReturn(c)

FairnessS ==
  /\ Fairness
  /\ WF_vars(StartAppRestart)
  /\ WF_vars(StartAppWatch)
  /\ WF_vars(RouteSignal)
  /\ WF_vars(RouteReturn)
  /\ WF_vars(RouteExit)
  /\ WF_vars(ShutdownRuns("run"))
  /\ WF_vars(HandleEvent)
  /\ WF_vars(SetActive)
  /\ WF_vars(Elapse)
  /\ WF_vars(RunExit)
  /\ \A i \in 1..MaxEvents :
       WF_vars(TimerFire(i)) /\ WF_vars(CallbackEmit(i)) /\ WF_vars(CallbackClear(i))

SpecSFair == SpecS /\ FairnessS

\* SpecSFair with one Restart and one raw event more.
InitSLong ==
  /\ MInit(MaxRestarts + 1)
  /\ app = Plain
  /\ WRun
  /\ RIdle
  /\ feed = [i \in 1..MaxRestarts |-> Written]
  /\ excludeDirs = <<>>
  /\ excludeFiles = <<>>
  /\ excludeRegex = <<>>

SpecSLong == InitSLong /\ [][NextS]_vars /\ FairnessS

\* SpecS with a second caller of the exported Shutdown beside Run.
NextX ==
  \/ NextS
  \/ Shutdown("ext")

SpecX == InitS /\ [][NextX]_vars

\* ------------------------------------------- several applications (runner.go)
\* Two applications with watch directories that have nothing in common, each
\* with the Watcher, the Manager and the routing task startApp gave it.
AppNames == {"A", "B"}

\* handleFileChanges of one application handed the Manager of application B.
ManagerOfShared(a) == "B"

\* Line 152: handleFileChanges(app.Name, manager, fileWatcher) is spawned with
\* the Manager (line 119) and the Watcher (line 131) startApp made for the
\* same application.
ManagerOf(a) == a
WatcherOf(a) == a

\* Manager m receives the call op from the routing task that took a signal
\* of Watcher w.
Call(m, op, w) ==
  [fleet EXCEPT ![m].calls = Append(@, [op |-> op, from |-> w])]

\* A file changes in the watch directory of a: its Watcher, and no other,
\* gets the raw event and arms its timer.
FleetChange(a) ==
  /\ fleet[a].n < MaxEvents
  /\ fleet' = [fleet EXCEPT ![a].n = @ + 1, ![a].pending = TRUE]
  /\ UNCHANGED <<mvars, wvars, rvars, exist, touched, watched>>
  /\ UNCHANGED <<evars, avars, run, rmu>>

\* watcher.go:125-131: the timer of a's Watcher fires and the signal is put
\* into its Events unless one is there.
FleetEmit(a) ==
  /\ fleet[a].pending
  /\ fleet' = [fleet EXCEPT ![a].pending = FALSE, ![a].Events = 1]
  /\ UNCHANGED <<mvars, wvars, rvars, exist, touched, watched>>
  /\ UNCHANGED <<evars, avars, run, rmu>>

\* Lines 160-161: the routing task of a takes the signal of its Watcher and
\* calls Restart on its Manager.
FleetRoute(a) ==
  /\ fleet[a].task = "select"
  /\ fleet[WatcherOf(a)].Events = 1
  /\ fleet' = [Call(ManagerOf(a), "Restart", WatcherOf(a))
                  EXCEPT ![WatcherOf(a)].Events = 0, ![a].task = "stop"]
  /\ UNCHANGED <<mvars, wvars, rvars, exist, touched, watched>>
  /\ UNCHANGED <<evars, avars, run, rmu>>

\* process.go:48: Restart calls Stop on its receiver.
FleetStop(a) ==
  /\ fleet[a].task = "stop"
  /\ fleet' = [Call(ManagerOf(a), "Stop", WatcherOf(a)) EXCEPT ![a].task = "start"]
  /\ UNCHANGED <<mvars, wvars, rvars, exist, touched, watched>>
  /\ UNCHANGED <<evars, avars, run, rmu>>

\* process.go:123: Restart calls Start on its receiver and returns.
FleetStart(a) ==
  /\ fleet[a].task = "start"
  /\ fleet' = [Call(ManagerOf(a), "Start", WatcherOf(a)) EXCEPT ![a].task = "select"]
  /\ UNCHANGED <<mvars, wvars, rvars, exist, touched, watched>>
  /\ UNCHANGED <<evars, avars, run, rmu>>

NextA ==
  \/ \E a \in AppNames : FleetChange(a)
  \/ \E a \in AppNames : FleetEmit(a)
  \/ \E a \in AppNames : FleetRoute(a)
  \/ \E a \in AppNames : FleetStop(a)
  \/ \E a \in AppNames : FleetStart(a)

\* Both applications started and watched, nothing changed yet.
InitA ==
  /\ MInit(0)
  /\ app = Plain
  /\ WRun
  /\ wst = "running"
  /\ done = FALSE
  /\ rpc = "none"
  /\ sd = [c \in SdCallers |-> "idle"]
  /\ feed = <<>>
  /\ excludeDirs = <<>>
  /\ excludeFiles = <<>>
  /\ excludeRegex = <<>>
  /\ exist = {}
  /\ touched = <<>>
  /\ watched = {}
  /\ fleet = [a \in AppNames |->
               [n |-> 0, pending |-> FALSE, Events |-> 0, task |-> "select",
                calls |-> <<>>]]
  /\ YIdle

SpecA == InitA /\ [][NextA]_vars

\* ======================================================================
\* Run over the selected applications (runner.go:39-114)
\* ======================================================================
\* The requests Run may get: up to MaxNames names, configured or not.
Requests == UNION {[1..n -> AppNames] : n \in 0..MaxNames}

Range(f) == {f[i] : i \in DOMAIN f}

\* Run that looks up the first requested name only.
MissingFirst(req, cfg) == {i \in DOMAIN req : i = 1 /\ req[i] \notin cfg}

\* Lines 47-68: the requested names that the configuration lacks, and the
\* applications to run: those named, or every configured one.
Missing(req, cfg) == {i \in DOMAIN req : req[i] \notin cfg}

appsToRun(req, cfg) == IF Len(req) > 0 THEN Range(req) ELSE cfg

RunFrame == UNCHANGED <<mvars, wvars, rvars, exist, touched, watched, fleet,
                        evars, avars, rmu>>

\* Lines 39-88: the session directory, the selection, signal.Notify and one
\* startApp goroutine per selected application. ok is what
\* GenerateSessionDir gives.
RunBegin ==
  /\ run.pos = "new"
  /\ \E ok \in BOOLEAN :
       IF ~ok
         THEN run' = [run EXCEPT !.pos = "returned", !.ret = "session"]
       ELSE IF Missing(run.req, run.cfg) # {}
         THEN run' = [run EXCEPT !.pos = "returned", !.ret = "notfound",
                                 !.session = "made"]
       ELSE IF appsToRun(run.req, run.cfg) = {}
         THEN run' = [run EXCEPT !.pos = "returned", !.ret = "noapps",
                                 !.session = "made"]
       ELSE run' = [run EXCEPT
              !.pos = "starting",
              !.session = "made",
              !.notified = TRUE,
              !.sel = appsToRun(run.req, run.cfg),
              !.task = [a \in AppNames |->
                          IF a \in appsToRun(run.req, run.cfg)
                            THEN "spawned" ELSE "none"]]
  /\ RunFrame

\* startApp, lines 119-125: the Manager is made and registered.
RunStartManager(a) ==
  /\ ~run.panicked
  /\ run.task[a] = "spawned"
  /\ run' = [run EXCEPT !.task[a] = "mgr", !.managers = @ \cup {a}]
  /\ RunFrame

\* startApp returns an error: it goes to startErrors (lines 82-86).
Fail(a) ==
  [run EXCEPT !.task[a] = "failed", !.startErrors = @ + 1]

\* startApp, lines 127-129: the first Restart.
RunStartRestart(a) ==
  /\ ~run.panicked
  /\ run.task[a] = "mgr"
  /\ \E ok \in BOOLEAN :
       run' = IF ok THEN [run EXCEPT !.task[a] = "restarted"] ELSE Fail(a)
  /\ RunFrame

\* startApp, lines 131-143: watcher.New and SetExcludes, either of which may
\* fail; then the Watcher is registered.
RunStartWatcher(a) ==
  /\ ~run.panicked
  /\ run.task[a] = "restarted"
  /\ \E o \in {"ok", "new fails", "excludes fail"} :
       run' = IF o = "ok"
                THEN [run EXCEPT !.task[a] = "registered",
                                 !.watchers = @ \cup {a}]
                ELSE Fail(a)
  /\ RunFrame

\* startApp, lines 145-154: Watch; then Start and the routing task.
RunStartWatch(a) ==
  /\ ~run.panicked
  /\ run.task[a] = "registered"
  /\ \E ok \in BOOLEAN :
       run' = IF ok THEN [run EXCEPT !.task[a] = "ok"] ELSE Fail(a)
  /\ RunFrame

Finished(a) == run.task[a] \in {"ok", "failed"}

\* Lines 90-101: wg.Wait, then the errors are counted; with one at least Run
\* calls Shutdown, otherwise it goes to its select.
RunJoin ==
  /\ ~run.panicked
  /\ run.pos = "starting"
  /\ \A a \in run.sel : Finished(a)
  /\ run' = IF run.startErrors > 0
              THEN [run EXCEPT !.pos = "shutdown", !.why = "startfail",
                               !.sd["run"] = "call"]
              ELSE [run EXCEPT !.pos = "select"]
  /\ RunFrame

\* The signal on an r.interrupt without a buffer: the send of os/signal does
\* not block, so with no receiver in its select the signal is dropped.
SignalUnbuffered ==
  /\ ~run.panicked
  /\ run.notified
  /\ run.pos # "returned"
  /\ run.interrupt = 0
  /\ run' = [run EXCEPT !.interrupt = IF run.pos = "select" THEN 1 ELSE 0,
                        !.early = @ \/ run.pos = "starting"]
  /\ RunFrame

\* The kernel delivers SIGINT or SIGTERM: os/signal sends on r.interrupt
\* without blocking (capacity 1, line 35). early records that a signal came
\* while the startApp goroutines were still at work.
Signal ==
  /\ ~run.panicked
  /\ run.notified
  /\ run.pos # "returned"
  /\ run.interrupt = 0
  /\ run' = [run EXCEPT !.interrupt = 1,
                        !.early = @ \/ run.pos = "starting"]
  /\ RunFrame

\* Lines 105-108: the select takes the signal; Run calls Shutdown.
RunInterrupt ==
  /\ ~run.panicked
  /\ run.pos = "select"
  /\ run.interrupt = 1
  /\ run' = [run EXCEPT !.interrupt = 0, !.pos = "shutdown", !.why = "nil",
                        !.sd["run"] = "call"]
  /\ RunFrame

\* Run with a select that gives up once it has found nothing ready (a
\* default case added to lines 104-111).
RunDoneOrNot ==
  /\ ~run.panicked
  /\ run.pos = "select"
  /\ run' = [run EXCEPT !.pos = "returned", !.ret = "nil"]
  /\ RunFrame

\* Lines 109-113: the select takes the closed done channel; Run returns nil.
RunDone ==
  /\ ~run.panicked
  /\ run.pos = "select"
  /\ run.done
  /\ run' = [run EXCEPT !.pos = "returned", !.ret = "nil"]
  /\ RunFrame

\* Shutdown is exported: a caller other than Run calls it.
ExtShutdown ==
  /\ ~run.panicked
  /\ run.pos \in {"starting", "select", "shutdown"}
  /\ run.sd["ext"] = "idle"
  /\ run' = [run EXCEPT !.sd["ext"] = "call"]
  /\ RunFrame

\* Shutdown, line 184: close(r.done); closing a closed channel panics.
RunShutdownClose(c) ==
  /\ ~run.panicked
  /\ run.sd[c] = "call"
  /\ run' = IF run.done
              THEN [run EXCEPT !.panicked = TRUE]
              ELSE [run EXCEPT !.done = TRUE, !.sd[c] = "closed"]
  /\ RunFrame

\* Shutdown, lines 186-197: every Watcher registered by now is stopped.
RunShutdownWatchers(c) ==
  /\ ~run.panicked
  /\ run.sd[c] = "closed"
  /\ run' = [run EXCEPT !.sd[c] = "watchers", !.wstopped = @ \cup run.watchers]
  /\ RunFrame

\* Shutdown, lines 199-223: a goroutine calls Stop on every Manager
\* registered by now.
RunShutdownLaunch(c) ==
  /\ ~run.panicked
  /\ run.sd[c] = "watchers"
  /\ run' = [run EXCEPT !.sd[c] = "stopping",
                        !.snap[c] = run.managers,
                        !.mstop = [a \in AppNames |->
                                     IF a \in run.managers /\ @[a] = "none"
                                       THEN "called" ELSE @[a]]]
  /\ RunFrame

\* The Stop of one Manager returns.
RunStopReturns(a) ==
  /\ ~run.panicked
  /\ run.mstop[a] = "called"
  /\ run' = [run EXCEPT !.mstop[a] = "returned"]
  /\ RunFrame

AllStopped(c) == \A a \in run.snap[c] : run.mstop[a] = "returned"

\* Shutdown, lines 225-227: every Stop has returned.
RunShutdownJoin(c) ==
  /\ ~run.panicked
  /\ run.sd[c] = "stopping"
  /\ AllStopped(c)
  /\ run' = [run EXCEPT !.sd[c] = "waited"]
  /\ RunFrame

\* Shutdown, lines 228-230: the watchdog fires first.
RunShutdownWatchdog(c) ==
  /\ ~run.panicked
  /\ run.sd[c] = "stopping"
  /\ ~AllStopped(c)
  /\ run' = [run EXCEPT !.sd[c] = "abandoned"]
  /\ RunFrame

\* Shutdown, lines 232-238: CleanUp, the session directory removed, return.
RunShutdownReturn(c) ==
  /\ ~run.panicked
  /\ run.sd[c] \in {"waited", "abandoned"}
  /\ run' = [run EXCEPT !.sd[c] = "returned", !.session = "removed"]
  /\ RunFrame

\* Run that returns the startup error without calling Shutdown (line 99
\* missing).
RunReturnAtOnce ==
  /\ ~run.panicked
  /\ run.pos = "shutdown"
  /\ run' = [run EXCEPT !.pos = "returned", !.ret = run.why]
  /\ RunFrame

\* Lines 100 and 113: Shutdown has returned to Run, which returns.
RunReturn ==
  /\ ~run.panicked
  /\ run.pos = "shutdown"
  /\ run.sd["run"] = "returned"
  /\ run' = [run EXCEPT !.pos = "returned", !.ret = run.why]
  /\ RunFrame

NextR ==
  \/ RunBegin
  \/ \E a \in AppNames : RunStartManager(a)
  \/ \E a \in AppNames : RunStartRestart(a)
  \/ \E a \in AppNames : RunStartWatcher(a)
  \/ \E a \in AppNames : RunStartWatch(a)
  \/ RunJoin
  \/ Signal
  \/ RunInterrupt
  \/ RunDone
  \/ ExtShutdown
  \/ \E c \in SdCallers : RunShutdownClose(c)
  \/ \E c \in SdCallers : RunShutdownWatchers(c)
  \/ \E c \in SdCallers : RunShutdownLaunch(c)
  \/ \E a \in AppNames : RunStopReturns(a)
  \/ \E c \in SdCallers : RunShutdownJoin(c)
  \/ \E c \in SdCallers : RunShutdownWatchdog(c)
  \/ \E c \in SdCallers : RunShutdownReturn(c)
  \/ RunReturn

\* A Runner as New returns it (lines 29-37), over every configuration and
\* every request.
InitR ==
  /\ MInit(0)
  /\ app = Plain
  /\ WIdle
  /\ wst = "new"
  /\ done = FALSE
  /\ rpc = "none"
  /\ sd = [c \in SdCallers |-> "idle"]
  /\ exist = {}
  /\ touched = <<>>
  /\ watched = {}
  /\ fleet = <<>>
  /\ AIdle
  /\ \E cfg \in SUBSET AppNames, req \in Requests :
       run = [cfg |-> cfg, req |-> req, pos |-> "new", ret |-> "none",
              why |-> "none", session |-> "none", notified |-> FALSE,
              interrupt |-> 0, early |-> FALSE, sel |-> {},
              task |-> [a \in AppNames |-> "none"],
              managers |-> {}, watchers |-> {}, startErrors |-> 0,
              done |-> FALSE, panicked |-> FALSE,
              sd |-> [c \in SdCallers |-> "idle"],
              snap |-> [c \in SdCallers |-> {}],
              wstopped |-> {},
              mstop |-> [a \in AppNames |-> "none"]]

SpecR == InitR /\ [][NextR]_vars

\* Every goroutine of Run, of startApp and of Shutdown goes on when it can;
\* signals and calls from outside come when they come.
FairnessR ==
  /\ WF_vars(RunBegin) /\ WF_vars(RunJoin) /\ WF_vars(RunInterrupt)
  /\ WF_vars(RunDone) /\ WF_vars(RunReturn)
  /\ \A a \in AppNames :
       /\ WF_vars(RunStartManager(a)) /\ WF_vars(RunStartRestart(a))
       /\ WF_vars(RunStartWatcher(a)) /\ WF_vars(RunStartWatch(a))
       /\ WF_vars(RunStopReturns(a))
  /\ \A c \in SdCallers :
       /\ WF_vars(RunShutdownClose(c)) /\ WF_vars(RunShutdownWatchers(c))
       /\ WF_vars(RunShutdownLaunch(c)) /\ WF_vars(RunShutdownJoin(c))
       /\ WF_vars(RunShutdownWatchdog(c)) /\ WF_vars(RunShutdownReturn(c))

SpecRFair == SpecR /\ FairnessR

\* ======================================================================
\* The Errors channels (watcher.go:143-151, runner.go:168-169)
\* ======================================================================
\* fsnotify has an error to report on its Errors channel.
RawError ==
  /\ wst = "running"
  /\ ~rawErr
  /\ rawErr' = TRUE
  /\ UNCHANGED <<Errors, avars, run, rmu, exist, touched, watched, fleet>>
  /\ UNCHANGED <<mvars, wvars, rvars>>

\* Lines 143-146: run receives the error.
HandleError ==
  /\ wst = "running"
  /\ wpc = "select"
  /\ rawErr
  /\ rawErr' = FALSE
  /\ wpc' = "forward"
  /\ UNCHANGED <<now, timers, timer, timerActive, Events, evTime, feed, fed, wcfg>>
  /\ UNCHANGED <<Errors, avars, run, rmu, exist, touched, watched, fleet>>
  /\ UNCHANGED <<mvars, rvars>>

\* run with a plain send on Errors (the select and its default case of lines
\* 147-151 missing).
ForwardErrorBlocking ==
  /\ wpc = "forward"
  /\ Errors < ErrorsCap
  /\ Errors' = Errors + 1
  /\ wpc' = "select"
  /\ UNCHANGED <<now, timers, timer, timerActive, Events, evTime, feed, fed, wcfg>>
  /\ UNCHANGED <<rawErr, avars, run, rmu, exist, touched, watched, fleet>>
  /\ UNCHANGED <<mvars, rvars>>

\* Lines 147-151: the error is passed on when Errors has room, dropped
\* otherwise.
ForwardError ==
  /\ wpc = "forward"
  /\ Errors' = IF Errors < ErrorsCap THEN Errors + 1 ELSE Errors
  /\ wpc' = "select"
  /\ UNCHANGED <<now, timers, timer, timerActive, Events, evTime, feed, fed, wcfg>>
  /\ UNCHANGED <<rawErr, avars, run, rmu, exist, touched, watched, fleet>>
  /\ UNCHANGED <<mvars, rvars>>

\* handleFileChanges, lines 168-169: the routing task at its select takes an
\* error and logs it.
RouteError ==
  /\ ~panicked
  /\ rpc = "select"
  /\ Errors > 0
  /\ Errors' = Errors - 1
  /\ UNCHANGED <<rawErr, avars, run, rmu, exist, touched, watched, fleet>>
  /\ UNCHANGED <<mvars, wvars, rvars>>

\* A Watcher and its routing task, the application started and building
\* only, with raw events and errors from fsnotify.
NextE ==
  \/ HandleEvent
  \/ SetActive
  \/ \E i \in 1..MaxEvents : TimerFire(i)
  \/ \E i \in 1..MaxEvents : CallbackEmit(i)
  \/ \E i \in 1..MaxEvents : CallbackClear(i)
  \/ Elapse
  \/ RawError
  \/ HandleError
  \/ ForwardError
  \/ RouteSignal
  \/ RouteError
  \/ StopEnter("router")
  \/ KillDelay
  \/ Build
  \/ RestartStart
  \/ RouteReturn

InitE ==
  /\ app = [Plain EXCEPT !.Run = "none"]
  /\ MReset(MaxRestarts)
  /\ WRun
  /\ wst = "running"
  /\ done = FALSE
  /\ rpc = "select"
  /\ sd = [c \in SdCallers |-> "idle"]
  /\ XIdle
  /\ feed = [i \in 1..MaxEvents |-> Written]
  /\ excludeDirs = <<>>
  /\ excludeFiles = <<>>
  /\ excludeRegex = <<>>

SpecE == InitE /\ [][NextE]_vars

\* ======================================================================
\* Runner.mu (sync.RWMutex) and Manager.mu
\* ======================================================================
\* The tasks inside a read lock of r.mu; a writer inside; a writer waiting,
\* which keeps new readers out (sync.RWMutex).
Readers == {t \in {"gra", "snap"} : rmu[t] \in {"held", "read"}}

Writing == rmu["reg"] = "held"

WriterWaits == rmu["reg"] = "lock"

LockFrame == UNCHANGED <<mvars, wvars, rvars, exist, touched, watched, fleet,
                         evars, avars, run>>

\* A task calls and asks for r.mu: GetRunningApps (line 278) and Shutdown
\* (lines 186, 199) for reading, startApp (lines 123, 141) for writing.
LockCall(t) ==
  /\ ~panicked
  /\ rmu[t] = "idle"
  /\ rmu' = [rmu EXCEPT ![t] = IF t = "reg" THEN "lock" ELSE "rlock"]
  /\ LockFrame

\* r.mu.RLock() returns.
RLock(t) ==
  /\ ~panicked
  /\ rmu[t] = "rlock"
  /\ ~Writing
  /\ ~WriterWaits
  /\ rmu' = [rmu EXCEPT ![t] = "held"]
  /\ LockFrame

\* r.mu.Lock() returns.
Lock ==
  /\ ~panicked
  /\ rmu["reg"] = "lock"
  /\ Readers = {}
  /\ rmu' = [rmu EXCEPT !["reg"] = "held"]
  /\ LockFrame

\* IsRunning that returns without the deferred unlock of line 363.
IsRunningKeepsLock ==
  /\ ~panicked
  /\ rmu["gra"] = "held"
  /\ mu = Free
  /\ mu' = "gra"
  /\ rmu' = [rmu EXCEPT !["gra"] = "read"]
  /\ UNCHANGED <<app, running, cmd, procs, sent, reaper, rtarget, panicked,
                 pc, hk, trace, result, left, started, stopPc, waiter, startRet,
                 client>>
  /\ UNCHANGED <<wvars, rvars, exist, touched, watched, fleet, evars, avars, run>>

\* GetRunningApps, line 282, inside the read lock: IsRunning (process.go
\* 361-365) takes m.mu, reads m.running and releases m.mu.
IsRunning ==
  /\ ~panicked
  /\ rmu["gra"] = "held"
  /\ mu = Free
  /\ rmu' = [rmu EXCEPT !["gra"] = "read"]
  /\ LockFrame

\* The task releases r.mu: the deferred RUnlock of GetRunningApps, lines 191
\* and 206 of Shutdown, lines 125 and 143 of startApp.
Unlock(t) ==
  /\ ~panicked
  /\ rmu[t] = IF t = "gra" THEN "read" ELSE "held"
  /\ rmu' = [rmu EXCEPT ![t] = "idle"]
  /\ LockFrame

NextL ==
  \/ RestartBegin
  \/ RestartSteps
  \/ Stop("router")
  \/ ShutdownStop
  \/ Stop("shutdown")
  \/ ShutdownStopped
  \/ \E g \in Gens : Reaper(g)
  \/ \E g \in Gens : ProcExit(g)
  \/ \E t \in LockTasks : LockCall(t)
  \/ \E t \in {"gra", "snap"} : RLock(t)
  \/ Lock
  \/ IsRunning
  \/ \E t \in LockTasks : Unlock(t)

InitL ==
  /\ app = Plain
  /\ MReset(MaxRestarts)
  /\ WIdle
  /\ RIdle

\* Fairness: a task inside a critical section leaves it, and sync.Mutex and
\* sync.RWMutex hand a lock that is released again and again to each waiter
\* in the end.
FairnessL ==
  /\ Fairness
  /\ \A t \in {"gra", "snap"} : SF_vars(RLock(t))
  /\ SF_vars(Lock)
  /\ SF_vars(IsRunning)
  /\ \A t \in LockTasks : WF_vars(Unlock(t))

SpecL == InitL /\ [][NextL]_vars /\ FairnessL

\* ======================================================================
\* Properties
\* ======================================================================
Steps(name) == {i \in 1..Len(trace) : trace[i].s = name}
Failed(name) == {i \in Steps(name) : ~trace[i].ok}
Returned == pc = "idle" /\ result # "none"

\* C1: in every reachable state the application has at most one live child
\* process launched by its Manager.
AtMostOneLive == Cardinality(Alive) <= 1

\* C2: the steps of one Restart come in the order stop, kill-delay,
\* pre-hooks, build, post-hooks, start-delay, start, and no pre-hook, build or
\* post-hook command runs while a child of an earlier Start is alive.
Rank(name) ==
  CASE name = "stop" -> 1
    [] name = "killDelay" -> 2
    [] name = "pre" -> 3
    [] name = "build" -> 4
    [] name = "rerunDelay" -> 5
    [] name = "post" -> 6
    [] name = "startDelay" -> 7
    [] name = "start" -> 8

InOrder ==
  \A i \in 1..Len(trace) : \A j \in 1..Len(trace) :
    i < j => /\ Rank(trace[i].s) <= Rank(trace[j].s)
             /\ Rank(trace[i].s) = Rank(trace[j].s) => trace[i].s \in {"pre", "post"}

KillsBeforeRebuilds ==
  /\ InOrder
  /\ pc \in {"pre", "build", "post"} => Alive = {}

\* C3: a failed build with rerun-on-failure disabled makes Restart return an
\* error at once, without Start, and the application is not reported running
\* afterwards (m.running is false), for either value of stop-on-error.
BuildFailureAborts ==
  (Failed("build") # {} /\ ~app.Rerun) =>
    /\ Returned
    /\ result = "err"
    /\ trace[Len(trace)] = Step("build", FALSE)
    /\ Steps("start") = {}
    /\ ~running

BuildFailureAborted ==
  /\ Failed("build") # {}
  /\ ~app.Rerun
  /\ ~app.StopOnError
  /\ result = "err"
  /\ ~running

\* C4: a failed build with rerun-on-failure enabled and stop-on-error disabled
\* does not abort: the rerun delay follows, every post-hook runs and Restart
\* reaches Start.
BuildFailureReruns ==
  /\ (Failed("build") # {} /\ app.Rerun) =>
       \A i \in Failed("build") :
         i < Len(trace) /\ trace[i + 1] = Step("rerunDelay", TRUE)
  /\ (Returned /\ Failed("build") # {} /\ app.Rerun /\ ~app.StopOnError) =>
       /\ Cardinality(Steps("post")) = app.NPost
       /\ Steps("start") # {}
       /\ trace[Len(trace)].s = "start"

BuildFailureRerun ==
  /\ Returned
  /\ Failed("build") # {}
  /\ app.Rerun
  /\ ~app.StopOnError
  /\ app.NPost > 0
  /\ Cardinality(Steps("post")) = app.NPost
  /\ Steps("start") # {}

\* C5 as stated: stop-on-error alone decides whether a failed hook, build or
\* Start makes Restart return an error.
AnyFailure ==
  Failed("pre") \cup Failed("build") \cup Failed("post") \cup Failed("start") # {}

StopOnErrorAloneDecides ==
  (Returned /\ AnyFailure) => (result = "err" <=> app.StopOnError)

\* C5 as amended: a failed hook aborts Restart exactly under stop-on-error; a
\* failed build aborts it exactly when rerun-on-failure is disabled, whatever
\* stop-on-error is; a failed Start always makes Restart return an error.
Aborting ==
  \/ (Failed("pre") \cup Failed("post") # {}) /\ app.StopOnError
  \/ Failed("build") # {} /\ ~app.Rerun
  \/ Failed("start") # {}

AbortRule ==
  Returned => (result = "err" <=> Aborting)

StopOnErrorFailureGoesOn ==
  /\ Returned
  /\ app.StopOnError
  /\ Failed("build") # {}
  /\ result = "ok"

\* C6: whenever Stop returns, the running flag is false and no process handle
\* is tracked (m.cmd is nil, or is a Cmd whose Process is nil because it never
\* started); Stop has no error return.
StopAlwaysStops ==
  [][\A t \in Callers :
       (stopPc[t] # "ret" /\ stopPc'[t] = "ret") =>
         (~running' /\ cmd' \notin Gens)]_vars

StoppedGracefully ==
  \E t \in Callers :
    /\ stopPc[t] = "ret"
    /\ StopHow(t) = "graceful"
    /\ ~running
    /\ cmd = Nil

\* C7: Stop on a running process sends the configured termination signal
\* first and the kill signal only from the grace timeout, taken while its wait
\* on the process has not reported the exit; the process is dead when Stop
\* returns, and Stop does return, also when the process ignores the
\* termination signal.
TermThenKill ==
  /\ [][\A t \in Callers :
          /\ sent'[t] # sent[t] =>
               \/ sent'[t] = <<>>
               \/ sent[t] = <<>> /\ sent'[t] = <<TermSignal>>
               \/ /\ sent[t] = <<TermSignal>>
                  /\ sent'[t] = <<TermSignal, "kill">>
                  /\ stopPc[t] = "wait"
                  /\ waiter[t] # "sent"
          /\ (stopPc[t] \in {"wait", "killed"} /\ stopPc'[t] = "ret") =>
               procs'[cmd] = "dead"]_vars
  /\ \A t \in {"router", "shutdown"} :
       (stopPc[t] = "wait") ~> (stopPc[t] = "ret")

ForceKilled ==
  \E t \in Callers :
    /\ stopPc[t] = "ret"
    /\ sent[t] = <<TermSignal, "kill">>
    /\ Alive = {}

\* C8: Stop with nothing tracked as running sends no signal, does not wait,
\* changes nothing of the manager and returns nil.
StopNoopFrame ==
  [][\A t \in Callers :
       (stopPc[t] = "call" /\ stopPc'[t] # "call" /\ ~running) =>
         /\ stopPc'[t] = "ret"
         /\ UNCHANGED <<running, cmd, mu, sent, waiter, procs, reaper>>]_vars

StopNeverStarted ==
  /\ stopPc["router"] = "ret"
  /\ sent["router"] = <<>>
  /\ Spawned = {}
  /\ cmd = Nil

\* C9: Start while a process is tracked as running returns the
\* already-running error, spawns nothing and leaves running and cmd alone.
StartInvoked ==
  \/ client = "idle" /\ client' = "start"
  \/ pc = "start" /\ pc' = "idle"

StartWhileRunning ==
  [][(StartInvoked /\ running) =>
       /\ startRet' = "already"
       /\ UNCHANGED <<running, cmd, procs, reaper>>]_vars

AlreadyRunning ==
  /\ client = "start"
  /\ startRet = "already"
  /\ running
  /\ cmd \in Gens

\* C10: N >= 1 qualifying raw events, each less than one debounce window
\* after the one before, produce exactly one coalesced signal, and only after
\* a full window has passed since the last of them: a signal reaches Events
\* only from the timer of the last event of such a group and not before its
\* window is over, and that timer has made its send by the time the window
\* and one more tick have passed (a send into a full buffer is dropped).
LastOfGroup(i) ==
  i = Len(evTime) \/ evTime[i + 1] - evTime[i] >= DebounceTicks

GroupOver(i) ==
  /\ now > evTime[i] + DebounceTicks
  /\ i = Len(evTime) \/ evTime[i + 1] - evTime[i] > DebounceTicks

OneSignalPerGroup ==
  \A i \in 1..Len(timers) :
    /\ timers[i].sent =>
         (LastOfGroup(i) /\ timers[i].emitAt >= evTime[i] + DebounceTicks)
    /\ GroupOver(i) => timers[i].st \in {"emitted", "done"}

\* C11 as stated: N qualifying raw events, each more than one debounce window
\* after the one before, put N signals on Events, one per event.
AllSpaced ==
  \A k \in 1..(Len(evTime) - 1) : evTime[k + 1] - evTime[k] > DebounceTicks

Attempted(i) == timers[i].st \in {"emitted", "done"}

OneSignalPerSpacedEvent ==
  AllSpaced =>
    \A i \in 1..Len(timers) :
      /\ GroupOver(i) => Attempted(i)
      /\ Attempted(i) => timers[i].sent

\* C11 as amended: each of N such events gets exactly one send, made when
\* its own window is over; the send puts a signal on Events whenever the
\* one-slot buffer is empty at that moment and is dropped otherwise, so the
\* first event always yields a signal and the N events yield N signals when
\* handleFileChanges reads each one before the next send.
OneSendPerSpacedEvent ==
  /\ [](AllSpaced =>
         \A i \in 1..Len(timers) :
           /\ GroupOver(i) => Attempted(i)
           /\ Attempted(i) => timers[i].emitAt = evTime[i] + DebounceTicks
           /\ (i = 1 /\ Attempted(i)) => timers[i].sent)
  /\ [][\A i \in 1..Len(timers) :
          (timers[i].st = "fired" /\ timers'[i].st # "fired") =>
            /\ timers'[i].sent <=> Events = 0
            /\ Events' = 1]_vars

TwoSpacedSignals ==
  /\ Len(evTime) = 2
  /\ AllSpaced
  /\ \A i \in 1..2 : Attempted(i) /\ timers[i].sent
  /\ GroupOver(2)

\* C13: a raw event that is a chmod only, or whose base name ends with ~,
\* starts with .#, has the extension .swp, .swo or .swx, or matches an
\* exclude_file glob, leaves the debounce timer and the Events channel as
\* they are: it arms nothing, cancels nothing and so produces no signal.
EditorTempNames ==
  {<<"s", "/", "a", ".", "g", "o", "~">>, <<"s", "/", ".", "#", "a">>,
   <<"a", ".", "s", "w", "p">>, <<"s", "/", ".", "s", "w", "x">>}

GlobExcludedNames ==
  IF excludeFiles = << <<"*", ".", "l", "o", "g">> >>
    THEN {<<"s", "/", "x", ".", "l", "o", "g">>}
  ELSE IF excludeFiles = << <<"b">>, <<"?", ".", "g", "o">> >>
    THEN {<<"s", "~", "/", "b">>, <<"s", "/", "a", ".", "g", "o">>}
  ELSE {}

Filtered(e) ==
  \/ e.Op = "chmod"
  \/ e.Name \in EditorTempNames
  \/ e.Name \in GlobExcludedNames

FilteredNeverArms ==
  [][IF fed' # fed
       THEN Filtered(feed[fed']) =>
              UNCHANGED <<wpc, timers, timer, timerActive, Events, evTime>>
       ELSE TRUE]_vars

FilteredWhilePending ==
  /\ fed = 2
  /\ Filtered(feed[2])
  /\ feed[2].Op # "chmod"
  /\ Len(evTime) = 1
  /\ Len(timers) = 1
  /\ timers[1].st = "armed"
  /\ now > timers[1].at

\* C16: for one application no two executions of Restart are in progress at
\* once: handleFileChanges exists only once startApp has its initial Restart
\* back, and a Restart under way is startApp's initial one or the one the
\* routing task is inside, never both.
InitialRestart == started = "no" /\ pc # "idle"
RoutedRestart == rpc = "restart"
RestartsNeverOverlap ==
  /\ rpc # "none" => started = "ok"
  /\ pc # "idle" => InitialRestart \/ RoutedRestart
  /\ ~(started = "no" /\ RoutedRestart)

\* C16 witness: the routing task is inside a Restart that is building.
RoutedRestartBuilding == RoutedRestart /\ pc = "build" /\ started = "ok"

\* C19: once Shutdown has returned no application has a live child; stated
\* for the Shutdown whose wait was not abandoned, every Stop it called having
\* returned before it did.
NoChildAfterShutdown == sd["run"] = "returned" => Alive = {}

\* C20: once done is closed the routing task begins no new Restart.
NoRestartAfterDone ==
  [][done => ~(rpc = "select" /\ rpc' = "restart")]_vars

\* C18: a second invocation of Shutdown completes without failure: its
\* close of the done channel, already closed by the first, does not panic.
SecondShutdownSucceeds ==
  [][\A c \in SdCallers :
       done /\ sd[c] = "call" /\ sd'[c] = "closed" => ~panicked']_vars

\* C17: an invocation of Shutdown always eventually returns.
ShutdownReturns == sd["run"] = "call" ~> ShutdownOver("run")

\* C12: every qualifying raw event a started Watcher observes before shutdown
\* is eventually followed by a Restart that begins after it.  An event has
\* just been observed where run stands between arming the timer and line 133;
\* a Restart begins where left goes down.
ChangeLeadsToRestart ==
  \A k \in 1..(MaxRestarts + 1) :
    (wpc = "set" /\ left = k /\ ~done /\ now + DebounceTicks <= MaxTime)
      ~> (left < k \/ done)

\* C14: a change to a path that lies under a directory with an excluded
\* name, or whose full path matches an exclude regex, never produces a
\* signal, at any depth: no raw event for a path under an excluded directory
\* ever reaches run, and a raw event for an excluded path leaves the timer
\* and Events as they are.
UnderExcludedDir(p) ==
  \E q \in UpToRoot(Parent(p)) :
    \E k \in 1..Len(excludeDirs) : Base(q) = excludeDirs[k]

RegexExcluded(p) == \E k \in 1..Len(excludeRegex) : MatchString(excludeRegex[k], p)

ExcludedNeverSignals ==
  /\ [](\A i \in 1..Len(feed) : ~UnderExcludedDir(feed[i].Name))
  /\ [][IF fed' # fed
          THEN UnderExcludedDir(feed[fed'].Name) \/ RegexExcluded(feed[fed'].Name)
                 => UNCHANGED <<wpc, timers, timer, timerActive, Events, evTime>>
          ELSE TRUE]_vars

\* C14 witness: the last change was to a file two levels below the excluded
\* directory /r/a/x, after run had handled, with a timer pending, a write to
\* a file the regex matches.
DeepExcludedChange ==
  /\ touched = Root \o <<"/", "a", "/", "x", "/", "a", "/", "f">>
  /\ fed = 2
  /\ RegexExcluded(feed[2].Name)
  /\ Len(timers) = 1
  /\ timers[1].st = "armed"

Hooks(name) == IF name = "pre" THEN app.NPre ELSE app.NPost

HooksInOrder ==
  /\ \A name \in {"pre", "post"} :
       /\ pc = name => hk = Cardinality(Steps(name)) /\ hk < Hooks(name)
       /\ Cardinality(Steps(name)) <= Hooks(name)
       /\ (Failed(name) # {} /\ app.StopOnError) =>
            /\ Returned
            /\ result = "err"
            /\ Failed(name) = {Len(trace)}
       /\ (Failed(name) # {} /\ ~app.StopOnError /\ pc # name) =>
            Cardinality(Steps(name)) = Hooks(name)
  /\ (pc \in {"build", "post", "start"} /\ ~app.StopOnError) =>
       Cardinality(Steps("pre")) = app.NPre
  /\ (pc = "start" /\ ~app.StopOnError) =>
       Cardinality(Steps("post")) = app.NPost

\* C26 witnesses share one run: the first pre-hook failed without
\* stop-on-error, the second ran, and the Restart has reached Start.
FailedHookGoesOn ==
  /\ ~app.StopOnError
  /\ \E i \in Failed("pre") : \A j \in Steps("pre") : i <= j
  /\ Cardinality(Steps("pre")) = 2
  /\ Failed("post") # {}
  /\ pc = "start"

\* C27: at every instant a Watcher has at most one armed debounce timer.
Armed == {i \in 1..Len(timers) : timers[i].st = "armed"}

AtMostOneArmed == Cardinality(Armed) <= 1

\* C30: Shutdown performs its phases in order: a Watcher is stopped only
\* once r.done is closed, Shutdown's Stop of a Manager is initiated only once
\* the Watcher is stopped, and CleanUp, session removal and the return come
\* only once that Stop has returned or the watchdog has fired.
ShutdownInPhases ==
  [][/\ (wst = "running" /\ wst' # "running") =>
          done /\ sd["run"] = "closed"
     /\ (stopPc["shutdown"] = "none" /\ stopPc'["shutdown"] # "none") =>
          done /\ wst # "running" /\ sd["run"] = "watchers"
     /\ (~ShutdownOver("run") /\ ShutdownOver("run")') =>
          /\ done /\ wst # "running"
          /\ stopPc["shutdown"] = "done" \/ sd["run"] = "abandoned"]_vars

\* C30 witness: Shutdown ran through every phase over a started application
\* whose Watcher was running and whose process it had to stop.
ShutdownWentThrough ==
  /\ sd["run"] = "returned"
  /\ wst \in {"closing", "exited"}
  /\ stopPc["shutdown"] = "done"
  /\ \E g \in DOMAIN procs : procs[g] = "dead"

\* C23: after a successful startup, a change-triggered Restart that has
\* failed leaves the application with no running process, and the routing
\* task goes back to its select with the Watcher still running.
RoutedRestartFailed ==
  /\ rpc = "restart"
  /\ pc = "idle"
  /\ result = "err"
  /\ sd["run"] = "idle"

FailedRestartLeavesNone ==
  RoutedRestartFailed => \A g \in DOMAIN procs : procs[g] # "alive"

\* C28: once the event loop has handled every queued event, each directory
\* made below a watched directory, and each qualifying directory below it,
\* is registered.
CreatedSubtreeRegistered ==
  (fed = Len(feed) /\ wpc = "select") => Walk(exist) \subseteq watched

\* C25: a call of CleanUp with clean_on_exit unset removes nothing; a call
\* after the first that finds the tracked binary and the temp directory
\* already removed changes nothing on the disk and reports no failure.
AlreadyRemoved ==
  /\ Len(cleanLog) >= 1
  /\ tmpFiles > 0 => "bin" \notin disk
  /\ cleanApp.TmpDir \notin {"", ".", "/"} => "tmp" \notin disk

CleanUpIdempotent ==
  [][Len(cleanLog') = Len(cleanLog) + 1 =>
       /\ ~cleanApp.CleanOnExit => disk' = disk
       /\ AlreadyRemoved =>
            disk' = disk /\ cleanLog'[Len(cleanLog')] = 0]_vars

\* C25 witness: the binary was tracked twice, a first CleanUp removed it and
\* the temp directory, and a second CleanUp has returned.
CleanedTwice ==
  /\ cleanApp.CleanOnExit
  /\ cleanApp.TmpDir = "dir"
  /\ tmpFiles = 2
  /\ Len(cleanLog) = 2
  /\ cleanLog[2] = 0
  /\ disk \cap {"bin", "tmp"} = {}

\* C29: run never waits on a channel it emits on: the step that sets the
\* timer, the step that passes an error on and the timer callback's send can
\* always be taken, whatever Events and Errors hold and wherever the routing
\* task is, and a raw event that is ready can be received.
RouterBusy == rpc = "restart"

LoopNeverBlocks ==
  /\ wpc = "set" => ENABLED SetActive
  /\ wpc = "forward" => ENABLED ForwardError
  /\ (wpc = "select" /\ fed < Len(feed)) => ENABLED HandleEvent
  /\ \A i \in 1..Len(timers) :
       timers[i].st = "fired" => ENABLED CallbackEmit(i)
  /\ Errors <= ErrorsCap
  /\ Events <= 1

\* C29 witness: the routing task is inside a Restart, both buffers are full,
\* and run has received one more error, which it is about to drop, with a
\* raw event still to come.
EmitOntoFullBuffers ==
  /\ RouterBusy
  /\ Events = 1
  /\ Errors = ErrorsCap
  /\ wpc = "forward"
  /\ fed < Len(feed)

\* C21: with a requested name the configuration lacks Run returns the
\* not-found error and has made no Manager, no Watcher and no startApp task;
\* with no name given every configured application is selected; with nothing
\* to run it returns the no-applications error, nothing made either.
Returned21(r) == run.pos = "returned" /\ run.ret = r

NameAbsent == \E i \in DOMAIN run.req : run.req[i] \notin run.cfg

NothingToRun == ~NameAbsent /\ Len(run.req) = 0 /\ run.cfg = {}

NothingStarted ==
  /\ run.managers = {}
  /\ run.watchers = {}
  /\ \A a \in AppNames : run.task[a] = "none"

RunSelects ==
  /\ (run.pos = "returned" /\ NameAbsent) =>
       run.ret = "notfound" /\ NothingStarted
  /\ (run.pos \in {"starting", "select", "shutdown"} /\ Len(run.req) = 0) =>
       run.sel = run.cfg
  /\ (run.pos = "returned" /\ NothingToRun) =>
       run.ret = "noapps" /\ NothingStarted

\* C21, amended: the same once the session directory could be made; when it
\* could not, Run returns that error first, whatever the names.
RunSelectsAfterSession ==
  /\ (run.pos = "returned" /\ NameAbsent) =>
       /\ run.ret = IF run.session = "none" THEN "session" ELSE "notfound"
       /\ NothingStarted
  /\ (run.pos \in {"starting", "select", "shutdown"} /\ Len(run.req) = 0) =>
       run.sel = run.cfg
  /\ (run.pos = "returned" /\ NothingToRun) =>
       /\ run.ret = IF run.session = "none" THEN "session" ELSE "noapps"
       /\ NothingStarted

\* C21 witness: the second of two requested names is not configured, and Run
\* has returned the not-found error.
SecondNameNotFound ==
  /\ Returned21("notfound")
  /\ Len(run.req) = 2
  /\ run.req[1] \in run.cfg
  /\ run.req[2] \notin run.cfg

\* C22: Run has returned the startup-failure error exactly when the startup
\* of a selected application failed, and then every startApp has finished,
\* Shutdown has returned to Run, every registered Watcher was stopped and
\* Stop was called on every registered Manager.
SomeStartupFailed == \E a \in run.sel : run.task[a] = "failed"

StartupFailureShutsDown ==
  run.pos = "returned" =>
    /\ run.ret = "startfail" <=> SomeStartupFailed
    /\ run.ret = "startfail" =>
         /\ \A a \in run.sel : Finished(a)
         /\ run.sd["run"] = "returned"
         /\ run.wstopped = run.watchers
         /\ \A a \in run.managers : run.mstop[a] # "none"

\* C22 witness: one application started and the other failed at Watch, and
\* Run has returned the error.
OneOfTwoFailed ==
  /\ run.pos = "returned"
  /\ run.ret = "startfail"
  /\ \E a, b \in run.sel :
       /\ run.task[a] = "ok"
       /\ run.task[b] = "failed"
       /\ b \in run.watchers

\* C24: Run leaves its select only with a signal in r.interrupt or with
\* r.done closed; when it returns after every startup succeeded it returns
\* nil, and after an interrupt only once its Shutdown has returned.
RunWaitsForStop ==
  [][/\ (run.pos = "select" /\ run.pos' # "select") =>
          run.interrupt = 1 \/ run.done
     /\ (run.pos = "select" /\ run.pos' = "shutdown") =>
          run.interrupt = 1 /\ run.sd'["run"] = "call"
     /\ (run.pos \in {"select", "shutdown"} /\ run.pos' = "returned"
           /\ ~SomeStartupFailed) =>
          /\ run.ret' = "nil"
          /\ run.pos = "shutdown" => run.sd["run"] = "returned"]_vars

\* C24 witness: two applications started, an interrupt came, Shutdown ran
\* and Run has returned nil.
InterruptedAndReturned ==
  /\ run.pos = "returned"
  /\ run.ret = "nil"
  /\ run.sd["run"] = "returned"
  /\ run.sel = AppNames
  /\ \A a \in AppNames : run.task[a] = "ok"

\* C31: the reaper goroutine of the g-th child waits on that child, and when
\* it clears running and cmd they are not those of a child started later.
ReaperOwnGeneration ==
  [][\A g \in Gens :
       (reaper[g] = "waiting" /\ reaper'[g] = "done") =>
         /\ rtarget[g] = g
         /\ ~(running /\ cmd \in Gens /\ cmd # g)]_vars

\* C34: no task waits for a lock for ever: a task that asks for r.mu gets
\* it, GetRunningApps gets m.mu inside its read lock, and Stop, Start and a
\* reaper whose process is gone get m.mu, unless the program has gone down.
ReaperAsks(g) ==
  /\ reaper[g] = "waiting"
  /\ IF rtarget[g] = NoProc THEN TRUE ELSE procs[rtarget[g]] = "dead"

SessionGoneOnReturn ==
  run.pos = "returned" => run.session # "made"


NoSignalAfterStop ==
  [][wst \notin {"closing", "exited"} \/
     /\ ~(Events = 0 /\ Events' = 1)
     /\ \A i \in 1..Len(timers) :
          timers[i].st = "armed" => timers'[i].st # "fired"]_vars


\* C36: once Watch has returned without error, the root it was called with
\* is registered.
RootRegistered ==
  wst = "running" => rootDir \in watched

====
